---- MODULE Spec2Model ----
(***************************************************************************)
(* Guest execution and VM-exit handling of the ArceOS hypervisor examples: *)
(*   exercises/simple_hv  (static backing: emulation by register synthesis)*)
(*   tour/h_2_0           (demand mapping of the pflash region)            *)
(* and the early allocator they boot on:                                   *)
(*   modules/bump_allocator  (EarlyAllocator)                              *)
(***************************************************************************)
EXTENDS Integers, Sequences, FiniteSets, TLC

(***************************************************************************)
(* Machine words.  A usize is 64 bits wide; it is kept as four 16-bit      *)
(* limbs, most significant first, so <<0, 0, \h8020, 0>> is 0x8020_0000.   *)
(***************************************************************************)
Limb == 2^16

Word64 == [1..4 -> 0..(Limb - 1)]

W16(lo) == <<0, 0, 0, lo>>

W32(hi, lo) == <<0, 0, hi, lo>>

\* usize addition of a small constant, wrapping at 2^64 as the release
\* profile of the build does (sepc += 4).
AddWord(x, n) ==
    LET s4 == x[4] + n
        s3 == x[3] + (s4 \div Limb)
        s2 == x[2] + (s3 \div Limb)
        s1 == x[1] + (s2 \div Limb)
    IN  <<s1 % Limb, s2 % Limb, s3 % Limb, s4 % Limb>>

\* x >> 12 on a 64-bit word.
Shr12(x) ==
    << x[1] \div 4096,
       (x[1] % 4096) * 16 + (x[2] \div 4096),
       (x[2] % 4096) * 16 + (x[3] \div 4096),
       (x[3] % 4096) * 16 + (x[4] \div 4096) >>

\* a <= b and a < b on 64-bit words.
LeWord(a, b) ==
    \/ a = b
    \/ \E i \in 1..4 : a[i] < b[i] /\ \A j \in 1..(i - 1) : a[j] = b[j]

LtWord(a, b) == a # b /\ LeWord(a, b)

\* x | (1 << k) for a bit k of the lowest limb.
SetBit(x, k) ==
    IF (x[4] \div (2^k)) % 2 = 1 THEN x ELSE <<x[1], x[2], x[3], x[4] + 2^k>>

(***************************************************************************)
(* simple_hv: constants of the program.                                    *)
(***************************************************************************)
VM_ENTRY == W32(\h8020, 0)

\* GprIndex: the index of a register in the general-purpose register file.
GprIndex == 0..31

A0 == 10

A1 == 11

\* The handshake values checked on reset and synthesized by emulation.
MAGIC_A0 == W16(\h6688)

MAGIC_A1 == W16(\h1234)

\* csrr a1, mhartid
INST_CSRR_A1_MHARTID == W32(\hf140, \h25f3)

\* The allow-listed load address (ld a0, 64(zero)).
FAULT_ADDR == W16(\h40)

\* 0x40 >> 2, the value htval holds for a guest-physical fault at 0x40.
FAULT_HTVAL == W16(\h10)

(***************************************************************************)
(* simple_hv: the register context (vcpu::VmCpuRegisters).                 *)
(***************************************************************************)
Zero64 == <<0, 0, 0, 0>>

\* An scause value: the interrupt bit and the exception code.
Scause(intr, code) == [intr |-> intr, code |-> code]

\* VmCpuRegisters::default(): every field zero.
DefaultCtx ==
    [ guest_regs |-> [ gprs    |-> [i \in GprIndex |-> Zero64],
                       sstatus |-> Zero64,
                       hstatus |-> Zero64,
                       sepc    |-> Zero64 ],
      trap_csrs  |-> [ scause |-> Scause(FALSE, 0),
                       stval  |-> Zero64,
                       htval  |-> Zero64 ] ]

\* GeneralPurposeRegisters::reg
reg(c, i) == c.guest_regs.gprs[i]

\* GeneralPurposeRegisters::set_reg: x0 is hard-wired to zero.
set_reg(c, i, v) ==
    IF i = 0 THEN c ELSE [c EXCEPT !.guest_regs.gprs[i] = v]

\* GeneralPurposeRegisters::a_regs: the argument registers a0..a7.
a_regs(c) == [k \in 0..7 |-> c.guest_regs.gprs[A0 + k]]

\* scause.cause(): the trap named by the interrupt bit and the code.
Cause(sc) ==
    IF sc.intr THEN "Interrupt"
    ELSE CASE sc.code = 2  -> "IllegalInstruction"
           [] sc.code = 3  -> "Breakpoint"
           [] sc.code = 10 -> "VirtualSupervisorEnvCall"
           [] sc.code = 20 -> "InstructionGuestPageFault"
           [] sc.code = 21 -> "LoadGuestPageFault"
           [] sc.code = 22 -> "VirtualInstruction"
           [] sc.code = 23 -> "StoreGuestPageFault"
           [] OTHER        -> "Unknown"

(***************************************************************************)
(* simple_hv: the hypercall codec (sbi::SbiMessage::from_regs).  The       *)
(* extension id is in a7 and the function id in a6; the result is the      *)
(* variant decoded, or "Err" for an unrecognized pair.                     *)
(***************************************************************************)
EID_SRST == W32(\h5352, \h5354)

EID_BASE == W16(\h10)

EID_PUTCHAR == W16(\h1)

from_regs(args) ==
    CASE args[7] = EID_SRST /\ args[6] = Zero64 -> "Reset"
      [] args[7] = EID_BASE                     -> "Base"
      [] args[7] = EID_PUTCHAR                  -> "PutChar"
      [] OTHER                                  -> "Err"

(***************************************************************************)
(* simple_hv: vmexit_handler.  The result of a call is the context it      *)
(* leaves, what it returned ("true", "false") or "panic", and the panic    *)
(* message.                                                                *)
(***************************************************************************)
Returns(c, b) == [ctx |-> c, ret |-> IF b THEN "true" ELSE "false", msg |-> ""]

Panics(c, m) == [ctx |-> c, ret |-> "panic", msg |-> m]

\* HandleReset returning false after the handshake (the guest is resumed).
HandleReset_ReturnsFalse(c) ==
    IF reg(c, A0) # MAGIC_A0 THEN Panics(c, "assert_eq a0")
    ELSE IF reg(c, A1) # MAGIC_A1 THEN Panics(c, "assert_eq a1")
    ELSE Returns(c, FALSE)

\* HandleReset without the assert_eq! on a1.
HandleReset_SkipsA1(c) ==
    IF reg(c, A0) # MAGIC_A0 THEN Panics(c, "assert_eq a0")
    ELSE Returns(c, TRUE)

\* SbiMessage::Reset(_): the two assert_eq!, then return true.
HandleReset(c) ==
    IF reg(c, A0) # MAGIC_A0 THEN Panics(c, "assert_eq a0")
    ELSE IF reg(c, A1) # MAGIC_A1 THEN Panics(c, "assert_eq a1")
    ELSE Returns(c, TRUE)

\* HandleEcall ignoring the requests it does not implement.
HandleEcall_Ignores(c) ==
    LET sbi_msg == from_regs(a_regs(c))
    IN  IF sbi_msg = "Reset" THEN HandleReset(c) ELSE Returns(c, FALSE)

\* Trap::Exception(Exception::VirtualSupervisorEnvCall)
HandleEcall(c) ==
    LET sbi_msg == from_regs(a_regs(c))
    IN  IF sbi_msg # "Err"
        THEN IF sbi_msg = "Reset" THEN HandleReset(c)
             ELSE Panics(c, "not yet implemented")
        ELSE Panics(c, "bad sbi message! ")

\* EmulateCsrr synthesizing another hart id.
EmulateCsrr_WrongValue(c) ==
    LET c1 == set_reg(c, A1, W16(\h1235))
    IN  [c1 EXCEPT !.guest_regs.sepc = AddWord(c1.guest_regs.sepc, 4)]

\* EmulateCsrr without the advance of sepc.
EmulateCsrr_NoAdvance(c) == set_reg(c, A1, MAGIC_A1)

\* The emulation of csrr a1, mhartid.
EmulateCsrr(c) ==
    LET c1 == set_reg(c, A1, MAGIC_A1)
    IN  [c1 EXCEPT !.guest_regs.sepc = AddWord(c1.guest_regs.sepc, 4)]

\* Trap::Exception(Exception::IllegalInstruction)
HandleIllegalInstruction(c, inst) ==
    IF inst = INST_CSRR_A1_MHARTID
    THEN Returns(EmulateCsrr(c), FALSE)
    ELSE Panics(c, "Unhandled illegal instruction")

\* IsAllowedLoad with the test dropped: every load fault is emulated.
IsAllowedLoad_Any(fault_addr, htval_val) == TRUE

\* The test of the LoadGuestPageFault branch.
IsAllowedLoad(fault_addr, htval_val) ==
    fault_addr = FAULT_ADDR \/ htval_val = FAULT_HTVAL

\* EmulateLoad writing the value to a1.
EmulateLoad_WrongReg(c) ==
    LET c1 == set_reg(c, A1, MAGIC_A0)
    IN  [c1 EXCEPT !.guest_regs.sepc = AddWord(c1.guest_regs.sepc, 4)]

\* The emulation of ld a0, 64(zero).
EmulateLoad(c) ==
    LET c1 == set_reg(c, A0, MAGIC_A0)
    IN  [c1 EXCEPT !.guest_regs.sepc = AddWord(c1.guest_regs.sepc, 4)]

\* Trap::Exception(Exception::LoadGuestPageFault)
HandleLoadGuestPageFault(c, fault_addr) ==
    LET htval_val == c.trap_csrs.htval
    IN  IF IsAllowedLoad(fault_addr, htval_val)
        THEN Returns(EmulateLoad(c), FALSE)
        ELSE Panics(c, "Unhandled page fault")

\* vmexit_handler resuming the guest on a cause it does not handle.
vmexit_handler_ResumesOther(c, sc, stv) ==
    CASE Cause(sc) = "VirtualSupervisorEnvCall" -> HandleEcall(c)
      [] Cause(sc) = "IllegalInstruction" -> HandleIllegalInstruction(c, stv)
      [] Cause(sc) = "LoadGuestPageFault" -> HandleLoadGuestPageFault(c, stv)
      [] OTHER -> Returns(c, FALSE)

\* vmexit_handler(ctx), reading the live scause and stval CSRs.
vmexit_handler(c, sc, stv) ==
    CASE Cause(sc) = "VirtualSupervisorEnvCall" -> HandleEcall(c)
      [] Cause(sc) = "IllegalInstruction" -> HandleIllegalInstruction(c, stv)
      [] Cause(sc) = "LoadGuestPageFault" -> HandleLoadGuestPageFault(c, stv)
      [] OTHER -> Panics(c, "Unhandled trap")

(***************************************************************************)
(* simple_hv: what a guest run can leave behind (vcpu::_run_guest).  The   *)
(* guest runs from the context's sepc with the context's registers until   *)
(* it traps; the trap CSRs are captured into trap_csrs.                    *)
(***************************************************************************)
\* Values the guest may have put in a0 and a1 when it traps.
GuestA0 == {Zero64, MAGIC_A0}

GuestA1 == {Zero64, MAGIC_A1}

\* The extension id (a7) and function id (a6) of the calls the guest makes.
GuestCalls ==
    { [eid |-> EID_SRST, fid |-> Zero64], [eid |-> EID_SRST, fid |-> W16(1)],
      [eid |-> EID_BASE, fid |-> Zero64], [eid |-> W16(\h0bad), fid |-> Zero64] }

\* The highest instruction address of the 64-bit address space.
TOP_PC == <<\hffff, \hffff, \hffff, \hfffc>>

\* The guest pc at the trap: the instruction resumed at, the next one, or
\* the last instruction of the address space.
GuestPcs(sepc) == {sepc, AddWord(sepc, 4), TOP_PC}

\* Instruction words an illegal-instruction trap may report in stval:
\* csrr a1, mhartid; csrr a0, mhartid; and a trap reporting no word.
GuestInsts == {INST_CSRR_A1_MHARTID, W32(\hf140, \h2573), Zero64}

\* Faulting guest virtual addresses (stval) of a guest page fault, and the
\* guest physical addresses shifted right by two (htval) they translate to:
\* 0x40 and 0x1040, each mapped by the guest to itself or to the other;
\* htval is zero where the hardware does not report the address.
GuestFaultAddrs == {FAULT_ADDR, W16(\h1040)}

GuestHtvals == {FAULT_HTVAL, W16(\h410), Zero64}

\* The trap taken: its cause, stval and htval.
GuestTraps ==
    {[scause |-> Scause(FALSE, 10), stval |-> Zero64, htval |-> Zero64]}
    \cup {[scause |-> Scause(FALSE, 2), stval |-> i, htval |-> Zero64] :
             i \in GuestInsts}
    \cup {[scause |-> Scause(FALSE, 21), stval |-> a, htval |-> h] :
             a \in GuestFaultAddrs, h \in GuestHtvals}
    \cup {[scause |-> Scause(FALSE, 23), stval |-> a, htval |-> FAULT_HTVAL] :
             a \in GuestFaultAddrs}
    \cup {[scause |-> Scause(FALSE, 20), stval |-> VM_ENTRY,
           htval |-> <<0, 0, \h2008, 0>>]}
    \cup {[scause |-> Scause(FALSE, 22), stval |-> Zero64, htval |-> Zero64]}
    \cup {[scause |-> Scause(TRUE, 5), stval |-> Zero64, htval |-> Zero64]}

\* The contexts a guest run can return with.
GuestRuns(c) ==
    { [ guest_regs |->
          [ c.guest_regs EXCEPT
              !.gprs = [c.guest_regs.gprs EXCEPT
                          ![A0] = a0, ![A1] = a1,
                          ![A0 + 6] = call.fid, ![A0 + 7] = call.eid],
              !.sepc = epc ],
        trap_csrs |-> t ] :
      a0 \in GuestA0, a1 \in GuestA1, call \in GuestCalls,
      epc \in GuestPcs(c.guest_regs.sepc), t \in GuestTraps }

(***************************************************************************)
(* simple_hv: boot.                                                        *)
(***************************************************************************)
\* Values of the hstatus and sstatus CSRs when main starts.
BootHstatus == {Zero64, <<0, 2, 0, 0>>}

BootSstatus == {<<\h8000, 2, 0, \h6000>>}

\* Page-table roots new_user_aspace may hand out.
EptRoots == {W32(\h8040, \h1000), <<0, 1, \h2345, \h6000>>}

\* prepare_guest_context without hstatus.modify(hstatus::spvp::Supervisor).
GuestHstatus_NoSpvp(h) == SetBit(h, 7)

\* prepare_guest_context: the hstatus value with spv and spvp set.
GuestHstatus(h) == SetBit(SetBit(h, 7), 8)

\* prepare_guest_context: the sstatus value with spp = Supervisor.
GuestSstatus(s) == SetBit(s, 8)

\* HgatpValue without the shift: the root address itself under the mode.
HgatpValue_NoShift(root) == <<root[1] + \h8000, root[2], root[3], root[4]>>

\* prepare_vm_pgtable: 8usize << 60 | usize::from(ept_root) >> 12
HgatpValue(root) ==
    LET pfn == Shr12(root)
    IN  <<pfn[1] + \h8000, pfn[2], pfn[3], pfn[4]>>

(***************************************************************************)
(* Bounds of the model.                                                    *)
(***************************************************************************)
\* The number of guest entries (_run_guest calls) explored.
MaxExits == 3

(***************************************************************************)
(* State.                                                                  *)
(***************************************************************************)
VARIABLES
    pc,          \* control location of simple_hv's main
    ctx,         \* VmCpuRegisters: guest_regs and trap_csrs
    scause,      \* the live scause CSR
    stval,       \* the live stval CSR
    hstatus,     \* the live hstatus CSR
    sstatus,     \* the live sstatus CSR
    hgatp,       \* the live hgatp CSR
    gtlb_valid,  \* FALSE between a hgatp write and the next hfence.gvma
    ept_root,    \* uspace.page_table_root()
    entries,     \* number of _run_guest calls made
    handled,     \* number of vmexit_handler calls made
    ret,         \* what the last vmexit_handler call did: none/true/false/panic
    msg          \* the panic message the process ended with, "" while running

hv_vars == <<pc, ctx, scause, stval, hstatus, sstatus, hgatp, gtlb_valid,
             ept_root, entries, handled, ret, msg>>

VARIABLES
    h_pc,        \* control location of h_2_0's main
    aspace,      \* the AddrSpace: the set of its mapped areas
    arch_vcpu,   \* the RISCVVCpu: its guest registers, entry and ept root
    run_ret,     \* what the last arch_vcpu.run() returned
    irq_enabled, \* whether host interrupts are enabled
    irq_flags,   \* the flags local_irq_save_and_disable returned
    pflash_img,  \* /sbin/pflash.img: "absent", or its bytes
    io,          \* what File::open, seek and read did in the last fault
    n_map,       \* number of map_alloc calls made by the fault handler
    h_msg        \* the panic message h_2_0 ended with, "" while running

h2_vars == <<h_pc, aspace, arch_vcpu, run_ret, irq_enabled, irq_flags,
             pflash_img, io, n_map, h_msg>>

VARIABLES
    ea_pc,       \* the EarlyAllocator's life: "new", "ready" or "panic"
    early,       \* the EarlyAllocator struct
    ea_ret,      \* the last call made on it and what it returned
    overflow_checks, \* the build profile: whether usize overflow panics
    ea_calls,    \* number of calls made on it
    ea_live,     \* the byte blocks alloc returned and dealloc has not taken back
    ea_pages     \* the page blocks alloc_pages returned

ea_vars == <<ea_pc, early, ea_ret, overflow_checks, ea_calls, ea_live,
             ea_pages>>

VARIABLES
    lv_pc,       \* control location of h_2_0's load_vm_image
    image_file,  \* the image: its bytes and the reader's position in them
    image_load_gpa, \* offset of image_load_gpa in its page
    image_size,  \* the size open_image_file returned
    image_load_regions, \* the host buffers of the translated range
    lv_filled,   \* number of buffers the loop has filled
    lv_io,       \* the last file-system call and whether it succeeded
    lv_ret       \* what load_vm_image returned, "none" before it returns

lv_vars == <<lv_pc, image_file, image_load_gpa, image_size,
             image_load_regions, lv_filled, lv_io, lv_ret>>

vars == <<hv_vars, h2_vars, ea_vars, lv_vars>>

\* A number of pages (num_pages, p_used): hi * 2^52 + lo, with lo below
\* 2^31 and hi below 2^12, so that hi counts the multiples of 2^64 / SIZE.
Pages(hi, lo) == [hi |-> hi, lo |-> lo]

\* EarlyAllocator::new(), and no call made on it.
EaNew ==
    /\ ea_pc = "new"
    /\ early = [start |-> 0, end |-> 0, b_pos |-> 0, p_pos |-> 0,
                b_count |-> 0, p_used |-> Pages(0, 0)]
    /\ ea_ret = [op |-> "new", ok |-> TRUE, addr |-> 0, args |-> <<>>]
    /\ ea_calls = 0
    /\ ea_live = <<>>
    /\ ea_pages = <<>>

EaIdle == EaNew /\ overflow_checks = FALSE

\* load_vm_image not called.
LvIdle ==
    /\ lv_pc = "idle"
    /\ image_file = [bytes |-> <<>>, pos |-> 0]
    /\ image_load_gpa = 0
    /\ image_size = 0
    /\ image_load_regions = <<>>
    /\ lv_filled = 0
    /\ lv_io = [call |-> "none", ok |-> TRUE]
    /\ lv_ret = "none"

\* h_2_0 is not running: its state is as before its main starts.
H2Idle ==
    /\ h_pc = "idle"
    /\ aspace = {}
    /\ arch_vcpu = [sepc |-> Zero64, a0 |-> Zero64, ept_root |-> Zero64]
    /\ run_ret = [tag |-> "none"]
    /\ irq_enabled = TRUE
    /\ irq_flags = TRUE
    /\ pflash_img = "absent"
    /\ io = [kind |-> "none", bytes |-> <<>>]
    /\ n_map = 0
    /\ h_msg = ""

(***************************************************************************)
(* simple_hv: main.                                                        *)
(***************************************************************************)
Init ==
    /\ pc = "new_user_aspace"
    /\ ctx = DefaultCtx
    /\ scause = Scause(FALSE, 0)
    /\ stval = Zero64
    /\ hstatus \in BootHstatus
    /\ sstatus \in BootSstatus
    /\ hgatp = Zero64
    /\ gtlb_valid = TRUE
    /\ ept_root = Zero64
    /\ entries = 0
    /\ handled = 0
    /\ ret = "none"
    /\ msg = ""
    /\ H2Idle
    /\ EaIdle
    /\ LvIdle

\* panic!: the process ends with the message.
Halt(m) == pc' = "halt" /\ msg' = m

\* axmm::new_user_aspace().unwrap()
new_user_aspace ==
    /\ pc = "new_user_aspace"
    /\ \/ \E r \in EptRoots :
             /\ ept_root' = r
             /\ pc' = "load_vm_image"
             /\ msg' = msg
       \/ /\ Halt("unwrap on Err")
          /\ UNCHANGED ept_root
    /\ UNCHANGED <<h2_vars, ea_vars, lv_vars>>
    /\ UNCHANGED <<ctx, scause, stval, hstatus, sstatus, hgatp, gtlb_valid,
                   entries, handled, ret>>

\* main going on after load_vm_image failed.
load_vm_image_IgnoresError ==
    /\ pc = "load_vm_image"
    /\ pc' = "prepare_guest_context"
    /\ msg' \in {msg, "Cannot load app!"}
    /\ UNCHANGED <<h2_vars, ea_vars, lv_vars>>
    /\ UNCHANGED <<ctx, scause, stval, hstatus, sstatus, hgatp, gtlb_valid,
                   ept_root, entries, handled, ret>>

\* load_vm_image("/sbin/skernel2", &mut uspace)
load_vm_image ==
    /\ pc = "load_vm_image"
    /\ \/ pc' = "prepare_guest_context" /\ msg' = msg
       \/ Halt("Cannot load app!")
    /\ UNCHANGED <<h2_vars, ea_vars, lv_vars>>
    /\ UNCHANGED <<ctx, scause, stval, hstatus, sstatus, hgatp, gtlb_valid,
                   ept_root, entries, handled, ret>>

\* let mut ctx = VmCpuRegisters::default(); prepare_guest_context(&mut ctx)
prepare_guest_context ==
    /\ pc = "prepare_guest_context"
    /\ hstatus' = GuestHstatus(hstatus)
    /\ ctx' = [DefaultCtx EXCEPT
                 !.guest_regs.hstatus = GuestHstatus(hstatus),
                 !.guest_regs.sstatus = GuestSstatus(sstatus),
                 !.guest_regs.sepc = VM_ENTRY]
    /\ pc' = "csrw_hgatp"
    /\ UNCHANGED <<h2_vars, ea_vars, lv_vars>>
    /\ UNCHANGED <<scause, stval, sstatus, hgatp, gtlb_valid, ept_root,
                   entries, handled, ret, msg>>

\* prepare_vm_pgtable without the hfence.gvma: the guest is entered right
\* after the hgatp write.
csrw_hgatp_NoFence ==
    /\ pc = "csrw_hgatp"
    /\ hgatp' = HgatpValue(ept_root)
    /\ gtlb_valid' = FALSE
    /\ pc' = "run_guest"
    /\ UNCHANGED <<h2_vars, ea_vars, lv_vars>>
    /\ UNCHANGED <<ctx, scause, stval, hstatus, sstatus, ept_root,
                   entries, handled, ret, msg>>

\* prepare_vm_pgtable: csrw hgatp
csrw_hgatp ==
    /\ pc = "csrw_hgatp"
    /\ hgatp' = HgatpValue(ept_root)
    /\ gtlb_valid' = FALSE
    /\ pc' = "hfence_gvma_all"
    /\ UNCHANGED <<h2_vars, ea_vars, lv_vars>>
    /\ UNCHANGED <<ctx, scause, stval, hstatus, sstatus, ept_root,
                   entries, handled, ret, msg>>

\* prepare_vm_pgtable: hfence_gvma_all()
hfence_gvma_all ==
    /\ pc = "hfence_gvma_all"
    /\ gtlb_valid' = TRUE
    /\ pc' = "run_guest"
    /\ UNCHANGED <<h2_vars, ea_vars, lv_vars>>
    /\ UNCHANGED <<ctx, scause, stval, hstatus, sstatus, hgatp, ept_root,
                   entries, handled, ret, msg>>

\* run_guest: the _run_guest(ctx) call.  The guest runs until it traps.
run_guest ==
    /\ pc = "run_guest"
    /\ entries < MaxExits
    /\ \E c \in GuestRuns(ctx) :
          /\ ctx' = c
          /\ scause' = c.trap_csrs.scause
          /\ stval' = c.trap_csrs.stval
    /\ entries' = entries + 1
    /\ pc' = "vmexit_handler"
    /\ UNCHANGED <<h2_vars, ea_vars, lv_vars>>
    /\ UNCHANGED <<hstatus, sstatus, hgatp, gtlb_valid, ept_root,
                   handled, ret, msg>>

\* LoopNext with the loop test inverted: the loop goes on after true.
LoopNext_Inverted(r) ==
    CASE r = "true"  -> "run_guest"
      [] r = "false" -> "exit_loop"
      [] OTHER       -> "halt"

\* while !run_guest(&mut ctx) {}: where main goes after the handler.
LoopNext(r) ==
    CASE r = "false" -> "run_guest"
      [] r = "true"  -> "exit_loop"
      [] OTHER       -> "halt"

\* run_guest: the vmexit_handler(ctx) call, and the test of the loop.
vmexit ==
    /\ pc = "vmexit_handler"
    /\ LET r == vmexit_handler(ctx, scause, stval)
       IN  /\ ctx' = r.ctx
           /\ ret' = r.ret
           /\ msg' = r.msg
           /\ pc' = LoopNext(r.ret)
    /\ handled' = handled + 1
    /\ UNCHANGED <<h2_vars, ea_vars, lv_vars>>
    /\ UNCHANGED <<scause, stval, hstatus, sstatus, hgatp, gtlb_valid,
                   ept_root, entries>>

\* panic!("Hypervisor ok!")
hypervisor_ok ==
    /\ pc = "exit_loop"
    /\ Halt("Hypervisor ok!")
    /\ UNCHANGED <<h2_vars, ea_vars, lv_vars>>
    /\ UNCHANGED <<ctx, scause, stval, hstatus, sstatus, hgatp, gtlb_valid,
                   ept_root, entries, handled, ret>>

Next ==
    \/ new_user_aspace
    \/ load_vm_image
    \/ prepare_guest_context
    \/ csrw_hgatp
    \/ hfence_gvma_all
    \/ run_guest
    \/ vmexit
    \/ hypervisor_ok

Spec == Init /\ [][Next]_vars

(***************************************************************************)
(* simple_hv with the guest of the end-to-end scenario: its image is       *)
(*     VM_ENTRY + 0   csrr a1, mhartid                                     *)
(*     VM_ENTRY + 4   ld   a0, 64(zero)                                    *)
(*     VM_ENTRY + 8   li   a7, <system reset>                              *)
(*     VM_ENTRY + 12  li   a6, 0                                           *)
(*     VM_ENTRY + 16  ecall                                                *)
(* The guest runs from the context's sepc to its next trap.  It leaves a0  *)
(* and a1 alone once it has trapped; what it has in them before its first  *)
(* trap, and what it keeps in a2, is its own business.                     *)
(***************************************************************************)
\* The cap on guest entries in the scenario.
MaxGuestExits == 5

GuestA2 == {Zero64, W16(\hbeef)}

\* The context with a2 written and the trap taken at epc recorded.
GuestTrapAt(c, a2, epc, t) ==
    [ guest_regs |-> [ c.guest_regs EXCEPT
                         !.gprs = [c.guest_regs.gprs EXCEPT ![A0 + 2] = a2],
                         !.sepc = epc ],
      trap_csrs |-> t ]

GuestProgram(c) ==
    LET at == c.guest_regs.sepc
    IN  IF at = VM_ENTRY
        THEN { GuestTrapAt(set_reg(set_reg(c, A0, a0), A1, a1), a2, at,
                           [scause |-> Scause(FALSE, 2),
                            stval |-> INST_CSRR_A1_MHARTID,
                            htval |-> Zero64]) :
               a0 \in GuestA0, a1 \in GuestA1, a2 \in GuestA2 }
        ELSE IF at = AddWord(VM_ENTRY, 4)
        THEN { GuestTrapAt(c, a2, at,
                           [scause |-> Scause(FALSE, 21),
                            stval |-> FAULT_ADDR, htval |-> h]) :
               a2 \in GuestA2, h \in {FAULT_HTVAL, Zero64} }
        ELSE IF at = AddWord(VM_ENTRY, 8)
        THEN { GuestTrapAt(set_reg(set_reg(c, A0 + 7, EID_SRST),
                                   A0 + 6, Zero64),
                           a2, AddWord(VM_ENTRY, 16),
                           [scause |-> Scause(FALSE, 10),
                            stval |-> Zero64, htval |-> Zero64]) :
               a2 \in GuestA2 }
        ELSE { GuestTrapAt(c, a2, at,
                           [scause |-> Scause(FALSE, 2),
                            stval |-> Zero64, htval |-> Zero64]) :
               a2 \in GuestA2 }

\* run_guest: the _run_guest(ctx) call, with that guest.
run_guest_program ==
    /\ pc = "run_guest"
    /\ entries < MaxGuestExits
    /\ \E c \in GuestProgram(ctx) :
          /\ ctx' = c
          /\ scause' = c.trap_csrs.scause
          /\ stval' = c.trap_csrs.stval
    /\ entries' = entries + 1
    /\ pc' = "vmexit_handler"
    /\ UNCHANGED <<h2_vars, ea_vars, lv_vars>>
    /\ UNCHANGED <<hstatus, sstatus, hgatp, gtlb_valid, ept_root,
                   handled, ret, msg>>

NextGuest ==
    \/ new_user_aspace
    \/ load_vm_image
    \/ prepare_guest_context
    \/ csrw_hgatp
    \/ hfence_gvma_all
    \/ run_guest_program
    \/ vmexit
    \/ hypervisor_ok

SpecGuest == Init /\ [][NextGuest]_vars

(***************************************************************************)
(* simple_hv with the host taking an interrupt of its own between the      *)
(* return of _run_guest and the entry of vmexit_handler.  The trap CSRs    *)
(* are shared by every trap into the host: the interrupt overwrites the    *)
(* live scause and stval, while ctx.trap_csrs keeps what was captured at   *)
(* the guest's exit.                                                       *)
(***************************************************************************)
\* The causes of the host's own interrupts: supervisor timer and external.
HostCauses == {Scause(TRUE, 5), Scause(TRUE, 9)}

host_trap ==
    /\ pc = "vmexit_handler"
    /\ \E hc \in HostCauses :
          /\ hc # scause
          /\ scause' = hc
          /\ stval' = Zero64
    /\ UNCHANGED <<h2_vars, ea_vars, lv_vars>>
    /\ UNCHANGED <<pc, ctx, hstatus, sstatus, hgatp, gtlb_valid, ept_root,
                   entries, handled, ret, msg>>

NextHostTrap ==
    \/ new_user_aspace
    \/ load_vm_image
    \/ prepare_guest_context
    \/ csrw_hgatp
    \/ hfence_gvma_all
    \/ run_guest
    \/ host_trap
    \/ vmexit
    \/ hypervisor_ok

SpecHostTrap == Init /\ [][NextHostTrap]_vars

(***************************************************************************)
(* h_2_0: constants of the program.                                        *)
(***************************************************************************)
PHY_MEM_START == W32(\h8000, 0)

PHY_MEM_SIZE == 16777216

KERNEL_BASE == W32(\h8020, 0)

\* The guest-physical address of pflash#2, the only fault handled.
PFLASH_ADDR == W32(\h2200, 0)

\* The length mapped for the fault, and of the buffer read into.
PAGE_LEN == 4096

\* MappingFlags::from_bits(0xf)
FULL_ACCESS == 15

\* "pfld".as_bytes()
PFLD == <<112, 102, 108, 100>>

(***************************************************************************)
(* h_2_0: bounds of the model.                                             *)
(***************************************************************************)
\* The longest /sbin/pflash.img explored, in bytes.
MaxFileLen == 3

(***************************************************************************)
(* h_2_0: the address space (axmm::AddrSpace).  An area is a mapped range  *)
(* with its flags and the bytes written at its start (zero elsewhere).     *)
(***************************************************************************)
Contains(area, addr) ==
    LeWord(area.start, addr) /\ LtWord(addr, AddWord(area.start, area.size))

Overlaps(area, start, size) ==
    LtWord(area.start, AddWord(start, size))
    /\ LtWord(start, AddWord(area.start, area.size))

Mapped(as, addr) == \E area \in as : Contains(area, addr)

\* AddrSpace::map_alloc(start, size, flags, true): a new zero-filled area,
\* or an error when the range is mapped already or no frame is left
\* (mem_ok is whether the frames could be allocated).
map_alloc(as, start, size, flags, mem_ok) ==
    IF ~mem_ok \/ \E area \in as : Overlaps(area, start, size)
    THEN [ok |-> FALSE, aspace |-> as]
    ELSE [ok |-> TRUE,
          aspace |-> as \cup {[start |-> start, size |-> size,
                               flags |-> flags, data |-> <<>>]}]

\* AddrSpace::write(addr, bytes), for addr the start of an area: the bytes
\* replace the first Len(bytes) bytes of the area.
write(as, addr, bytes) ==
    IF \E area \in as : area.start = addr /\ Len(bytes) <= area.size
    THEN [ok |-> TRUE,
          aspace |-> { IF area.start = addr
                       THEN [area EXCEPT !.data =
                               bytes \o SubSeq(area.data, Len(bytes) + 1,
                                               Len(area.data))]
                       ELSE area : area \in as }]
    ELSE [ok |-> FALSE, aspace |-> as]

\* The first n bytes of the area that starts at addr.
PageBytes(as, addr, n) ==
    LET area == CHOOSE a \in as : a.start = addr
    IN  [k \in 1..n |-> IF k <= Len(area.data) THEN area.data[k] ELSE 0]

(***************************************************************************)
(* h_2_0: the backing file /sbin/pflash.img and what File::open, seek and  *)
(* read can do on it.                                                      *)
(***************************************************************************)
FileBytes == {80, 70}

PflashImages ==
    {[present |-> FALSE, bytes |-> <<>>]}
    \cup {[present |-> TRUE, bytes |-> b] :
            b \in UNION {[1..n -> FileBytes] : n \in 0..MaxFileLen}}

Min(a, b) == IF a < b THEN a ELSE b

\* The outcomes of open, seek(Start(0)) and read(&mut page) on the image:
\* which call failed, or the bytes read (f.read may return fewer bytes than
\* the file holds, and returns none at the end of the file).
IoOutcomes(img) ==
    {[kind |-> "open_err", bytes |-> <<>>]}
    \cup IF ~img.present THEN {}
         ELSE {[kind |-> "seek_err", bytes |-> <<>>],
               [kind |-> "read_err", bytes |-> <<>>]}
              \cup {[kind |-> "read_ok", bytes |-> SubSeq(img.bytes, 1, n)] :
                      n \in IF Len(img.bytes) = 0 THEN {0}
                            ELSE 1..Min(Len(img.bytes), PAGE_LEN)}

(***************************************************************************)
(* h_2_0: the exits of the vCPU (riscv_vcpu::RISCVVCpu::run).              *)
(***************************************************************************)
\* Guest pcs and a0 values the vCPU may hold when it exits.
H2GuestPcs == {KERNEL_BASE, AddWord(KERNEL_BASE, 4), AddWord(KERNEL_BASE, 8)}

H2GuestA0 == {Zero64, W32(\h646c, \h6670)}

\* Guest-physical addresses a nested page fault may report.
H2FaultAddrs ==
    {PFLASH_ADDR, AddWord(PFLASH_ADDR, 4), AddWord(PFLASH_ADDR, PAGE_LEN),
     W32(\h1000, 0)}

\* What run() may return: an exit reason or an error.  A nested page fault
\* is reported only for an address the address space does not map.
RunResults(as) ==
    {[tag |-> "Ok", kind |-> k, addr |-> Zero64, access_flags |-> 0] :
        k \in {"Nothing", "Halt", "SystemDown"}}
    \cup {[tag |-> "Ok", kind |-> "NestedPageFault", addr |-> a,
           access_flags |-> f] :
             a \in {x \in H2FaultAddrs : ~Mapped(as, x)}, f \in {1, 2}}
    \cup {[tag |-> "Err", kind |-> "BadState", addr |-> Zero64,
           access_flags |-> 0]}

(***************************************************************************)
(* h_2_0: the NestedPageFault arm of main's loop.  The result is the       *)
(* address space and the vCPU it leaves, the number of map_alloc calls it  *)
(* made, and the panic message if its assert_eq! or an unwrap() failed.    *)
(***************************************************************************)
\* What the arm writes into the new page for each outcome of the file
\* calls: "pfld" when open or seek failed, else the bytes read, if any.
FillPage(as, addr, o) ==
    IF o.kind \in {"open_err", "seek_err"} THEN write(as, addr, PFLD)
    ELSE IF Len(o.bytes) > 0 THEN write(as, addr, o.bytes)
    ELSE [ok |-> TRUE, aspace |-> as]

\* The arm without its assert_eq! on the address: a page is mapped at
\* whatever address faulted.
HandleNestedPageFault_AnyAddr(as, vc, addr, o, mem_ok) ==
    LET m == map_alloc(as, addr, PAGE_LEN, FULL_ACCESS, mem_ok)
        w == FillPage(m.aspace, addr, o)
    IN  IF ~m.ok \/ ~w.ok
        THEN [aspace |-> m.aspace, vcpu |-> vc, maps |-> 1,
              msg |-> "unwrap on Err"]
        ELSE [aspace |-> w.aspace, vcpu |-> vc, maps |-> 1, msg |-> ""]

\* The arm moving the guest pc past the faulting instruction, as the
\* static-backing handler does.
HandleNestedPageFault_AdvancesPc(as, vc, addr, o, mem_ok) ==
    IF addr # PFLASH_ADDR
    THEN [aspace |-> as, vcpu |-> vc, maps |-> 0,
          msg |-> "Now we ONLY handle pflash#2."]
    ELSE LET m == map_alloc(as, addr, PAGE_LEN, FULL_ACCESS, mem_ok)
             w == FillPage(m.aspace, addr, o)
         IN  IF ~m.ok \/ ~w.ok
             THEN [aspace |-> m.aspace, vcpu |-> vc, maps |-> 1,
                   msg |-> "unwrap on Err"]
             ELSE [aspace |-> w.aspace,
                   vcpu |-> [vc EXCEPT !.sepc = AddWord(vc.sepc, 4)],
                   maps |-> 1, msg |-> ""]

\* NestedPageFault{addr, access_flags} => { .. }: the assert_eq! on the
\* address, then map_alloc(..).unwrap() and write(..).unwrap().
HandleNestedPageFault(as, vc, addr, o, mem_ok) ==
    IF addr # PFLASH_ADDR
    THEN [aspace |-> as, vcpu |-> vc, maps |-> 0,
          msg |-> "Now we ONLY handle pflash#2."]
    ELSE LET m == map_alloc(as, addr, PAGE_LEN, FULL_ACCESS, mem_ok)
             w == FillPage(m.aspace, addr, o)
         IN  IF ~m.ok \/ ~w.ok
             THEN [aspace |-> m.aspace, vcpu |-> vc, maps |-> 1,
                   msg |-> "unwrap on Err"]
             ELSE [aspace |-> w.aspace, vcpu |-> vc, maps |-> 1,
                   msg |-> ""]

(***************************************************************************)
(* h_2_0: main.                                                            *)
(***************************************************************************)
\* simple_hv is not running: its state is as before its main starts.
HvIdle ==
    /\ pc = "idle"
    /\ ctx = DefaultCtx
    /\ scause = Scause(FALSE, 0)
    /\ stval = Zero64
    /\ hstatus = Zero64
    /\ sstatus = Zero64
    /\ hgatp = Zero64
    /\ gtlb_valid = TRUE
    /\ ept_root = Zero64
    /\ entries = 0
    /\ handled = 0
    /\ ret = "none"
    /\ msg = ""

InitH20 ==
    /\ HvIdle
    /\ EaIdle
    /\ LvIdle
    /\ h_pc = "new_empty"
    /\ aspace = {}
    /\ arch_vcpu = [sepc |-> Zero64, a0 |-> Zero64, ept_root |-> Zero64]
    /\ run_ret = [tag |-> "none"]
    /\ irq_enabled \in BOOLEAN
    /\ irq_flags = TRUE
    /\ pflash_img \in PflashImages
    /\ io = [kind |-> "none", bytes |-> <<>>]
    /\ n_map = 0
    /\ h_msg = ""

H2Halt(m) == h_pc' = "halt" /\ h_msg' = m

\* AddrSpace::new_empty(VM_ASPACE_BASE, VM_ASPACE_SIZE).unwrap()
h2_new_empty ==
    /\ h_pc = "new_empty"
    /\ \/ h_pc' = "map_alloc" /\ h_msg' = h_msg
       \/ H2Halt("unwrap on Err")
    /\ UNCHANGED <<aspace, arch_vcpu, run_ret, irq_enabled, irq_flags,
                   pflash_img, io, n_map>>
    /\ UNCHANGED <<hv_vars, ea_vars, lv_vars>>

\* aspace.map_alloc(PHY_MEM_START, PHY_MEM_SIZE, 0xf, true).unwrap()
h2_map_alloc ==
    /\ h_pc = "map_alloc"
    /\ \E mem_ok \in BOOLEAN :
          LET m == map_alloc(aspace, PHY_MEM_START, PHY_MEM_SIZE,
                             FULL_ACCESS, mem_ok)
          IN  /\ aspace' = m.aspace
              /\ h_pc' = IF m.ok THEN "load_vm_image" ELSE "halt"
              /\ h_msg' = IF m.ok THEN h_msg ELSE "unwrap on Err"
    /\ UNCHANGED <<arch_vcpu, run_ret, irq_enabled, irq_flags, pflash_img,
                   io, n_map>>
    /\ UNCHANGED <<hv_vars, ea_vars, lv_vars>>

\* load_vm_image(..).expect("Failed to load VM images")
h2_load_vm_image ==
    /\ h_pc = "load_vm_image"
    /\ \/ h_pc' = "vcpu_setup" /\ h_msg' = h_msg
       \/ H2Halt("Failed to load VM images")
    /\ UNCHANGED <<aspace, arch_vcpu, run_ret, irq_enabled, irq_flags,
                   pflash_img, io, n_map>>
    /\ UNCHANGED <<hv_vars, ea_vars, lv_vars>>

\* RISCVVCpu::init(); set_entry(KERNEL_BASE); set_ept_root(root)
h2_vcpu_setup ==
    /\ h_pc = "vcpu_setup"
    /\ \E root \in EptRoots :
          arch_vcpu' = [sepc |-> KERNEL_BASE, a0 |-> Zero64, ept_root |-> root]
    /\ h_pc' = "irq_save"
    /\ UNCHANGED <<aspace, run_ret, irq_enabled, irq_flags, pflash_img, io,
                   n_map, h_msg>>
    /\ UNCHANGED <<hv_vars, ea_vars, lv_vars>>

\* vcpu_run: let flags = local_irq_save_and_disable()
h2_irq_save ==
    /\ h_pc = "irq_save"
    /\ irq_flags' = irq_enabled
    /\ irq_enabled' = FALSE
    /\ h_pc' = "run"
    /\ UNCHANGED <<aspace, arch_vcpu, run_ret, pflash_img, io, n_map, h_msg>>
    /\ UNCHANGED <<hv_vars, ea_vars, lv_vars>>

\* vcpu_run: let ret = arch_vcpu.run()
h2_run ==
    /\ h_pc = "run"
    /\ \E r \in RunResults(aspace), epc \in H2GuestPcs, a0 \in H2GuestA0 :
          /\ run_ret' = r
          /\ arch_vcpu' = [arch_vcpu EXCEPT !.sepc = epc, !.a0 = a0]
    /\ h_pc' = "irq_restore"
    /\ UNCHANGED <<aspace, irq_enabled, irq_flags, pflash_img, io, n_map,
                   h_msg>>
    /\ UNCHANGED <<hv_vars, ea_vars, lv_vars>>

\* vcpu_run enabling interrupts after the run instead of restoring the
\* flags it saved.
h2_irq_restore_Enables ==
    /\ h_pc = "irq_restore"
    /\ irq_enabled' = TRUE
    /\ h_pc' = "match"
    /\ UNCHANGED <<aspace, arch_vcpu, run_ret, irq_flags, pflash_img, io,
                   n_map, h_msg>>
    /\ UNCHANGED <<hv_vars, ea_vars, lv_vars>>

\* vcpu_run: local_irq_restore(flags); ret
h2_irq_restore ==
    /\ h_pc = "irq_restore"
    /\ irq_enabled' = irq_flags
    /\ h_pc' = "match"
    /\ UNCHANGED <<aspace, arch_vcpu, run_ret, irq_flags, pflash_img, io,
                   n_map, h_msg>>
    /\ UNCHANGED <<hv_vars, ea_vars, lv_vars>>

\* The match on the result of vcpu_run: Err and the exits not handled.
h2_match_fatal ==
    /\ h_pc = "match"
    /\ \/ run_ret.tag = "Err" /\ H2Halt("run VCpu get error")
       \/ /\ run_ret.tag = "Ok"
          /\ run_ret.kind \notin {"Nothing", "NestedPageFault"}
          /\ H2Halt("Unhandled VM-Exit")
    /\ UNCHANGED <<aspace, arch_vcpu, run_ret, irq_enabled, irq_flags,
                   pflash_img, io, n_map>>
    /\ UNCHANGED <<hv_vars, ea_vars, lv_vars>>

\* The match on the result of vcpu_run: AxVCpuExitReason::Nothing => {}
h2_match_nothing ==
    /\ h_pc = "match"
    /\ run_ret.tag = "Ok" /\ run_ret.kind = "Nothing"
    /\ h_pc' = "irq_save"
    /\ UNCHANGED <<aspace, arch_vcpu, run_ret, irq_enabled, irq_flags,
                   pflash_img, io, n_map, h_msg>>
    /\ UNCHANGED <<hv_vars, ea_vars, lv_vars>>

\* The match on the result of vcpu_run: NestedPageFault{addr, access_flags}
h2_match_nested_page_fault ==
    /\ h_pc = "match"
    /\ run_ret.tag = "Ok" /\ run_ret.kind = "NestedPageFault"
    /\ \E o \in IoOutcomes(pflash_img), mem_ok \in BOOLEAN :
          LET r == HandleNestedPageFault(aspace, arch_vcpu, run_ret.addr, o,
                                         mem_ok)
          IN  /\ aspace' = r.aspace
              /\ arch_vcpu' = r.vcpu
              /\ n_map' = n_map + r.maps
              /\ io' = IF run_ret.addr = PFLASH_ADDR THEN o ELSE io
              /\ h_msg' = r.msg
              /\ h_pc' = IF r.msg = "" THEN "irq_save" ELSE "halt"
    /\ UNCHANGED <<run_ret, irq_enabled, irq_flags, pflash_img>>
    /\ UNCHANGED <<hv_vars, ea_vars, lv_vars>>

NextH20 ==
    \/ h2_new_empty
    \/ h2_map_alloc
    \/ h2_load_vm_image
    \/ h2_vcpu_setup
    \/ h2_irq_save
    \/ h2_run
    \/ h2_irq_restore
    \/ h2_match_fatal
    \/ h2_match_nothing
    \/ h2_match_nested_page_fault

SpecH20 == InitH20 /\ [][NextH20]_vars

(***************************************************************************)
(* Either program booting: simple_hv or h_2_0.                             *)
(***************************************************************************)
InitHypervisors == Init \/ InitH20

NextHypervisors ==
    \/ new_user_aspace
    \/ load_vm_image
    \/ prepare_guest_context
    \/ csrw_hgatp
    \/ hfence_gvma_all
    \/ run_guest
    \/ vmexit
    \/ hypervisor_ok
    \/ h2_new_empty
    \/ h2_map_alloc
    \/ h2_load_vm_image
    \/ h2_vcpu_setup
    \/ h2_irq_save
    \/ h2_run
    \/ h2_irq_restore
    \/ h2_match_fatal
    \/ h2_match_nothing
    \/ h2_match_nested_page_fault

SpecHypervisors == InitHypervisors /\ [][NextHypervisors]_vars

(***************************************************************************)
(* bump_allocator: usize values.  The allocator's addresses lie near one   *)
(* of the two ends of the 64-bit address space: a value v below 2^31 is    *)
(* kept as the integer v, a value above 2^64 - 2^31 as v - 2^64.  On these *)
(* representatives + and - are the wrapping operations of the 64-bit word, *)
(* and the bits are those of the two's complement.                         *)
(***************************************************************************)
\* The number of low bits the operands of & may differ in from their sign.
EaBits == 16

\* a < b and a <= b as usize values.
ULt(a, b) == IF (a < 0) = (b < 0) THEN a < b ELSE b < 0

ULe(a, b) == a = b \/ ULt(a, b)

\* a + n leaves the 64-bit range (n >= 0); a - n does (n >= 0).
AddOverflows(a, n) == a < 0 /\ a + n >= 0

SubUnderflows(a, n) == a >= 0 /\ a - n < 0

\* !x and x & y on 64-bit words.
Not(x) == 0 - x - 1

RECURSIVE AndBits(_, _, _)
AndBits(x, y, k) ==
    IF k = EaBits THEN (IF x < 0 /\ y < 0 THEN 0 - 1 ELSE 0) * (2^EaBits)
    ELSE ((x \div (2^k)) % 2) * ((y \div (2^k)) % 2) * (2^k)
         + AndBits(x, y, k + 1)

BitAnd(x, y) == AndBits(x, y, 0)

(***************************************************************************)
(* bump_allocator: EarlyAllocator<SIZE>.  The result of a call is the      *)
(* allocator it leaves, whether it returned Ok, the address returned, and  *)
(* whether it panicked on an arithmetic overflow (checks is whether the    *)
(* build checks for overflow; without checks the operation wraps).         *)
(***************************************************************************)
\* The const parameter SIZE: the page size.
SIZE == 4096

\* The number of calls made on an allocator explored.
MaxCalls == 4

EaOk(self, addr) == [self |-> self, ok |-> TRUE, addr |-> addr, panic |-> FALSE]

EaErr(self) == [self |-> self, ok |-> FALSE, addr |-> 0, panic |-> FALSE]

EaPanic(self) == [self |-> self, ok |-> FALSE, addr |-> 0, panic |-> TRUE]

\* (addr + align - 1) & !(align - 1)
align_up(addr, align) == BitAnd(addr + align - 1, Not(align - 1))

\* addr & !(align - 1)
align_down(addr, align) == BitAnd(addr, Not(align - 1))

\* BaseAllocator::init(start, size)
init(self, start, size) ==
    [self EXCEPT !.start = start, !.end = start + size, !.b_pos = start,
                 !.p_pos = start + size, !.b_count = 0,
                 !.p_used = Pages(0, 0)]

\* ByteAllocator::alloc(layout), for layout.size() = size and
\* layout.align() = align.
alloc(self, size, align, checks) ==
    IF checks /\ AddOverflows(self.b_pos, align)
    THEN EaPanic(self)
    ELSE LET alloc_start == align_up(self.b_pos, align)
             alloc_end == alloc_start + size
         IN  IF AddOverflows(alloc_start, size) THEN EaErr(self)
             ELSE IF ULt(self.p_pos, alloc_end) THEN EaErr(self)
             ELSE LET s1 == [self EXCEPT !.b_pos = alloc_end,
                                         !.b_count = self.b_count + 1]
                  IN  IF alloc_start = 0 THEN EaErr(s1)
                      ELSE EaOk(s1, alloc_start)

\* ByteAllocator::dealloc(pos, layout)
dealloc(self) ==
    LET s1 == IF self.b_count > 0
              THEN [self EXCEPT !.b_count = self.b_count - 1] ELSE self
    IN  IF s1.b_count = 0 THEN [s1 EXCEPT !.b_pos = s1.start] ELSE s1

\* num_pages * SIZE as a usize (SIZE = 2^12, so hi * 2^52 * SIZE is a
\* multiple of 2^64), and whether the product leaves the 64-bit range.
PagesTimesSize(n) == n.lo * SIZE

MulOverflows(n) == n.hi > 0

\* p_used += num_pages as a usize, and whether the sum leaves the range.
AddPages(p, n) == Pages((p.hi + n.hi) % 4096, p.lo + n.lo)

AddPagesOverflows(p, n) == p.hi + n.hi >= 4096

\* PageAllocator::alloc_pages(num_pages, align_pow2)
alloc_pages(self, num_pages, align_pow2, checks) ==
    IF checks /\ MulOverflows(num_pages) THEN EaPanic(self)
    ELSE
    LET alloc_size == PagesTimesSize(num_pages)
        alloc_end == self.p_pos
    IN  IF SubUnderflows(alloc_end, alloc_size) THEN EaErr(self)
        ELSE IF checks /\ SubUnderflows(align_pow2, 1) THEN EaPanic(self)
        ELSE LET alloc_start == alloc_end - alloc_size
                 aligned_start == align_down(alloc_start, align_pow2)
             IN  IF ULt(aligned_start, self.b_pos) THEN EaErr(self)
                 ELSE IF checks /\ AddPagesOverflows(self.p_used, num_pages)
                 THEN EaPanic([self EXCEPT !.p_pos = aligned_start])
                 ELSE EaOk([self EXCEPT !.p_pos = aligned_start,
                                       !.p_used = AddPages(self.p_used,
                                                           num_pages)],
                           aligned_start)

(***************************************************************************)
(* bump_allocator: the calls made on an allocator.                         *)
(***************************************************************************)
\* The regions init is called with: at address 0, at the second page, and
\* in the last pages of the address space.
Regions ==
    {[start |-> 0, size |-> 2 * SIZE], [start |-> SIZE, size |-> 2 * SIZE],
     [start |-> 0 - 3 * SIZE, size |-> 2 * SIZE]}

\* The sizes and alignments of the layouts asked for.
AllocSizes == {0, 8, SIZE}

AllocAligns == {1, 8, 4 * SIZE}

\* The arguments of alloc_pages: 0, 1, 2, 2^52 + 1 and 2^63 pages.
PageCounts ==
    {Pages(0, 0), Pages(0, 1), Pages(0, 2), Pages(1, 1), Pages(2048, 0)}

PageAligns == {1, 2 * SIZE}

InitEarly ==
    /\ HvIdle
    /\ H2Idle
    /\ EaNew
    /\ overflow_checks \in BOOLEAN
    /\ LvIdle

\* The sequence s without its i-th element.
Without(s, i) == SubSeq(s, 1, i - 1) \o SubSeq(s, i + 1, Len(s))

\* The outcome r of the call op(args): the allocator it left, or the panic.
EaCall(op, args, r) ==
    /\ ea_calls < MaxCalls
    /\ ea_calls' = ea_calls + 1
    /\ early' = r.self
    /\ ea_ret' = [op |-> op, ok |-> r.ok, addr |-> r.addr, args |-> args]
    /\ ea_pc' = IF r.panic THEN "panic" ELSE "ready"
    /\ UNCHANGED overflow_checks
    /\ UNCHANGED <<hv_vars, h2_vars, lv_vars>>

ea_init ==
    /\ ea_pc = "new"
    /\ \E r \in Regions :
          EaCall("init", <<r.start, r.size>>,
                 EaOk(init(early, r.start, r.size), 0))
    /\ UNCHANGED <<ea_live, ea_pages>>

ea_add_memory ==
    /\ ea_pc = "ready"
    /\ EaCall("add_memory", <<>>, EaErr(early))
    /\ UNCHANGED <<ea_live, ea_pages>>

ea_alloc ==
    /\ ea_pc = "ready"
    /\ \E size \in AllocSizes, align \in AllocAligns :
          LET r == alloc(early, size, align, overflow_checks)
          IN  /\ EaCall("alloc", <<size, align>>, r)
              /\ ea_live' = IF r.ok
                            THEN Append(ea_live, [addr |-> r.addr,
                                                  size |-> size])
                            ELSE ea_live
    /\ UNCHANGED ea_pages

\* dealloc(pos, layout), for a block alloc returned and no dealloc has
\* taken back yet.
ea_dealloc ==
    /\ ea_pc = "ready"
    /\ \E i \in 1..Len(ea_live) :
          /\ EaCall("dealloc", <<ea_live[i].addr, ea_live[i].size>>,
                    EaOk(dealloc(early), 0))
          /\ ea_live' = Without(ea_live, i)
    /\ UNCHANGED ea_pages

ea_alloc_pages ==
    /\ ea_pc = "ready"
    /\ \E num_pages \in PageCounts, align_pow2 \in PageAligns :
          LET r == alloc_pages(early, num_pages, align_pow2, overflow_checks)
          IN  /\ EaCall("alloc_pages", <<num_pages, align_pow2>>, r)
              /\ ea_pages' = IF r.ok
                             THEN Append(ea_pages, [addr |-> r.addr,
                                                    pages |-> num_pages])
                             ELSE ea_pages
    /\ UNCHANGED ea_live

\* dealloc_pages(pos, num_pages), for a block alloc_pages returned.
ea_dealloc_pages ==
    /\ ea_pc = "ready"
    /\ \E i \in 1..Len(ea_pages) :
          EaCall("dealloc_pages", <<ea_pages[i].addr, ea_pages[i].pages>>,
                 EaOk(early, 0))
    /\ UNCHANGED <<ea_live, ea_pages>>

NextEarly ==
    \/ ea_init
    \/ ea_add_memory
    \/ ea_alloc
    \/ ea_dealloc
    \/ ea_alloc_pages
    \/ ea_dealloc_pages

SpecEarly == InitEarly /\ [][NextEarly]_vars

(***************************************************************************)
(* h_2_0: load_vm_image and open_image_file, one step per call they make.  *)
(***************************************************************************)
\* The longest image explored, in bytes, and the bytes it is made of.
MaxImageLen == 3

ImageBytes == {1, 2}

\* The page size of the translated range, in bytes.
LoadPageLen == 2

Images == UNION {[1..n -> ImageBytes] : n \in 0..MaxImageLen}

\* A buffer of n bytes of guest memory, not written yet.
ZeroBuffer(n) == [i \in 1..n |-> 0]

\* aspace.translated_byte_buffer(image_load_gpa, image_size): the host
\* buffers of the range, one per page it touches, in address order.
RECURSIVE translated_byte_buffer(_, _)
translated_byte_buffer(offset, size) ==
    IF size = 0 THEN <<>>
    ELSE LET n == Min(size, LoadPageLen - offset)
         IN  <<ZeroBuffer(n)>> \o translated_byte_buffer(0, size - n)

\* The n bytes of the file from its position on.
FileRead(file, n) == SubSeq(file.bytes, file.pos + 1, file.pos + n)

\* What a failed read_exact may leave in the buffer: k bytes of the file,
\* fewer than the buffer holds, and the rest as it was.
PartialFill(file, buffer, k) ==
    [i \in 1..Len(buffer) |->
        IF i <= k /\ file.pos + i <= Len(file.bytes)
        THEN file.bytes[file.pos + i] ELSE buffer[i]]

\* load_vm_image returning r.
LvReturn(r) == lv_pc' = "return" /\ lv_ret' = r

InitLoad ==
    /\ HvIdle
    /\ H2Idle
    /\ EaIdle
    /\ lv_pc = "open"
    /\ image_file \in [bytes : Images, pos : {0}]
    /\ image_load_gpa \in 0..(LoadPageLen - 1)
    /\ image_size = 0
    /\ image_load_regions = <<>>
    /\ lv_filled = 0
    /\ lv_io = [call |-> "none", ok |-> TRUE]
    /\ lv_ret = "none"

\* File::open(file_name).map_err(NotFound)?
lv_open ==
    /\ lv_pc = "open"
    /\ \E ok \in BOOLEAN :
          /\ lv_io' = [call |-> "open", ok |-> ok]
          /\ IF ok THEN lv_pc' = "metadata" /\ lv_ret' = lv_ret
                   ELSE LvReturn("NotFound")
    /\ UNCHANGED <<image_file, image_load_gpa, image_size,
                   image_load_regions, lv_filled>>
    /\ UNCHANGED <<hv_vars, h2_vars, ea_vars>>

\* file.metadata().map_err(Io)?.size() as usize
lv_metadata ==
    /\ lv_pc = "metadata"
    /\ \E ok \in BOOLEAN :
          /\ lv_io' = [call |-> "metadata", ok |-> ok]
          /\ IF ok THEN /\ image_size' = Len(image_file.bytes)
                        /\ lv_pc' = "translate"
                        /\ lv_ret' = lv_ret
                   ELSE /\ image_size' = image_size
                        /\ LvReturn("Io")
    /\ UNCHANGED <<image_file, image_load_gpa, image_load_regions, lv_filled>>
    /\ UNCHANGED <<hv_vars, h2_vars, ea_vars>>

\* aspace.translated_byte_buffer(image_load_gpa, image_size).expect(..);
\* BufReader::new(image_file)
lv_translate ==
    /\ lv_pc = "translate"
    /\ \/ /\ image_load_regions' =
               translated_byte_buffer(image_load_gpa, image_size)
          /\ lv_pc' = "read_exact"
       \/ /\ image_load_regions' = image_load_regions
          /\ lv_pc' = "panic"
    /\ UNCHANGED <<image_file, image_load_gpa, image_size, lv_filled, lv_io,
                   lv_ret>>
    /\ UNCHANGED <<hv_vars, h2_vars, ea_vars>>

\* The loop going on to the next buffer after read_exact failed.
lv_read_exact_IgnoresError ==
    /\ lv_pc = "read_exact"
    /\ lv_filled < Len(image_load_regions)
    /\ LET buffer == image_load_regions[lv_filled + 1]
       IN  \E ok \in BOOLEAN :
             /\ lv_io' = [call |-> "read_exact", ok |-> ok]
             /\ lv_filled' = lv_filled + 1
             /\ IF ok
                THEN /\ image_load_regions' =
                          [image_load_regions EXCEPT ![lv_filled + 1] =
                              FileRead(image_file, Len(buffer))]
                     /\ image_file' =
                          [image_file EXCEPT !.pos = @ + Len(buffer)]
                ELSE UNCHANGED <<image_load_regions, image_file>>
    /\ UNCHANGED <<lv_pc, lv_ret, image_load_gpa, image_size>>
    /\ UNCHANGED <<hv_vars, h2_vars, ea_vars>>

\* for buffer in image_load_regions { file.read_exact(buffer).map_err(Io)? }
\* It fills the whole buffer from the file, or fails having written fewer
\* bytes than the buffer holds.
lv_read_exact ==
    /\ lv_pc = "read_exact"
    /\ lv_filled < Len(image_load_regions)
    /\ LET buffer == image_load_regions[lv_filled + 1]
       IN  \/ /\ lv_io' = [call |-> "read_exact", ok |-> TRUE]
              /\ image_load_regions' =
                   [image_load_regions EXCEPT ![lv_filled + 1] =
                       FileRead(image_file, Len(buffer))]
              /\ image_file' = [image_file EXCEPT !.pos = @ + Len(buffer)]
              /\ lv_filled' = lv_filled + 1
              /\ UNCHANGED <<lv_pc, lv_ret>>
           \/ \E k \in 0..(Len(buffer) - 1) :
                /\ lv_io' = [call |-> "read_exact", ok |-> FALSE]
                /\ image_load_regions' =
                     [image_load_regions EXCEPT ![lv_filled + 1] =
                         PartialFill(image_file, buffer, k)]
                /\ image_file' = [image_file EXCEPT !.pos = @ + k]
                /\ lv_filled' = lv_filled
                /\ LvReturn("Io")
    /\ UNCHANGED <<image_load_gpa, image_size>>
    /\ UNCHANGED <<hv_vars, h2_vars, ea_vars>>

\* Ok(()) after the loop
lv_ok ==
    /\ lv_pc = "read_exact"
    /\ lv_filled = Len(image_load_regions)
    /\ LvReturn("Ok")
    /\ UNCHANGED <<image_file, image_load_gpa, image_size,
                   image_load_regions, lv_filled, lv_io>>
    /\ UNCHANGED <<hv_vars, h2_vars, ea_vars>>

NextLoad ==
    \/ lv_open
    \/ lv_metadata
    \/ lv_translate
    \/ lv_read_exact
    \/ lv_ok

SpecLoad == InitLoad /\ [][NextLoad]_vars

(***************************************************************************)
(* simple_hv: the claims about the exit dispatcher and the run loop.       *)
(***************************************************************************)
\* The exit handled by the next vmexit_handler call.
AtExit(cause) == pc = "vmexit_handler" /\ Cause(scause) = cause

SbiMsg == from_regs(a_regs(ctx))

Handshake == reg(ctx, A0) = MAGIC_A0 /\ reg(ctx, A1) = MAGIC_A1

\* Bits 11..7 of an instruction word: the rd field.
Rd(inst) == (inst[4] \div 128) % 32

\* The handler panicked: the context is as it was, main has ended and the
\* guest is not entered again.
Fatal == ret' = "panic" /\ pc' = "halt" /\ ctx' = ctx /\ entries' = entries

\* C1: a Reset hypercall with a0 = 0x6688 and a1 = 0x1234 makes
\* vmexit_handler return true; the loop stops on that exit, no further
\* _run_guest call is made, and "Hypervisor ok!" is reported; also when it
\* is the first exit.
C1_ResetStopsLoop ==
    /\ [][ (AtExit("VirtualSupervisorEnvCall") /\ SbiMsg = "Reset" /\ Handshake)
           => (ret' = "true" /\ pc' = "exit_loop" /\ entries' = entries
               /\ ctx' = ctx) ]_vars
    /\ [][ ret = "true" => (entries' = entries /\ ret' = "true") ]_vars
    /\ [][ pc = "exit_loop" => (pc' = "halt" /\ msg' = "Hypervisor ok!") ]_vars
    /\ [](ret = "true" => ( (pc = "exit_loop" /\ ENABLED hypervisor_ok)
                            \/ (pc = "halt" /\ msg = "Hypervisor ok!") ))

C1_Witness ==
    /\ pc = "halt" /\ msg = "Hypervisor ok!" /\ ret = "true"
    /\ entries = 1 /\ handled = 1
    /\ Cause(scause) = "VirtualSupervisorEnvCall" /\ SbiMsg = "Reset"
    /\ Handshake

\* C2: a Reset hypercall with any other (a0, a1) makes vmexit_handler
\* panic: it returns neither true nor false, the guest is not resumed and
\* the normal shutdown is not reached.
C2_BadHandshakeFatal ==
    /\ [][ (AtExit("VirtualSupervisorEnvCall") /\ SbiMsg = "Reset" /\ ~Handshake)
           => (Fatal /\ msg' \in {"assert_eq a0", "assert_eq a1"}) ]_vars
    /\ [][ ret = "panic"
           => (ret' = "panic" /\ entries' = entries /\ pc' = "halt"
               /\ msg' = msg /\ msg # "Hypervisor ok!") ]_vars

C2_Witness ==
    /\ pc = "halt" /\ ret = "panic" /\ msg = "assert_eq a1"
    /\ Cause(scause) = "VirtualSupervisorEnvCall" /\ SbiMsg = "Reset"
    /\ reg(ctx, A0) = MAGIC_A0 /\ reg(ctx, A1) # MAGIC_A1

\* C3: for an IllegalInstruction exit with stval = 0xf14025f3, after
\* vmexit_handler the register named by the rd field (a1) holds 0x1234,
\* sepc is its old value plus 4, every other register, hstatus and sstatus
\* are unchanged, and the handler returns false (the guest is resumed).
C3_CsrrEmulated ==
    [][ (AtExit("IllegalInstruction") /\ stval = INST_CSRR_A1_MHARTID)
        => /\ Rd(stval) = A1
           /\ reg(ctx', Rd(stval)) = W16(\h1234)
           /\ ctx'.guest_regs.sepc = AddWord(ctx.guest_regs.sepc, 4)
           /\ \A i \in GprIndex \ {Rd(stval)} : reg(ctx', i) = reg(ctx, i)
           /\ ctx'.guest_regs.hstatus = ctx.guest_regs.hstatus
           /\ ctx'.guest_regs.sstatus = ctx.guest_regs.sstatus
           /\ ctx'.trap_csrs = ctx.trap_csrs
           /\ ret' = "false" /\ pc' = "run_guest" ]_vars

C3_Witness ==
    /\ pc = "run_guest" /\ ret = "false" /\ handled = 1
    /\ Cause(scause) = "IllegalInstruction" /\ stval = INST_CSRR_A1_MHARTID
    /\ reg(ctx, A1) = W16(\h1234)
    /\ ctx.guest_regs.sepc = AddWord(VM_ENTRY, 4)

\* C4: for a LoadGuestPageFault exit at guest address 0x40, after
\* vmexit_handler a0 holds 0x6688, sepc is its old value plus 4, every
\* other register, hstatus and sstatus are unchanged, and the handler
\* returns false (the guest is resumed).
C4_LoadEmulated ==
    [][ (AtExit("LoadGuestPageFault") /\ stval = W16(\h40))
        => /\ reg(ctx', A0) = W16(\h6688)
           /\ ctx'.guest_regs.sepc = AddWord(ctx.guest_regs.sepc, 4)
           /\ \A i \in GprIndex \ {A0} : reg(ctx', i) = reg(ctx, i)
           /\ ctx'.guest_regs.hstatus = ctx.guest_regs.hstatus
           /\ ctx'.guest_regs.sstatus = ctx.guest_regs.sstatus
           /\ ctx'.trap_csrs = ctx.trap_csrs
           /\ ret' = "false" /\ pc' = "run_guest" ]_vars

C4_Witness ==
    /\ pc = "run_guest" /\ ret = "false" /\ handled = 1
    /\ Cause(scause) = "LoadGuestPageFault" /\ stval = W16(\h40)
    /\ reg(ctx, A0) = W16(\h6688)
    /\ ctx.guest_regs.sepc = AddWord(VM_ENTRY, 4)

(***************************************************************************)
(* h_2_0: the claims about the demand-mapping fault handler.               *)
(***************************************************************************)
\* main is about to handle a NestedPageFault at 0x2200_0000.
AtPflashFault ==
    /\ h_pc = "match"
    /\ run_ret.tag = "Ok" /\ run_ret.kind = "NestedPageFault"
    /\ run_ret.addr = W32(\h2200, 0)

\* The areas mapped at 0x2200_0000.
PflashAreas(as) == {area \in as : area.start = W32(\h2200, 0)}

\* C5: handling a NestedPageFault at 0x2200_0000 never changes the pc or
\* any other register of the vCPU, whatever open, seek and read did: the
\* handler only touches the address space, and when it returns the loop
\* runs the vCPU again from the state it exited with.
C5_VcpuUntouched ==
    /\ [][ AtPflashFault
           => /\ arch_vcpu' = arch_vcpu
              /\ run_ret' = run_ret
              /\ irq_enabled' = irq_enabled
              /\ pflash_img' = pflash_img
              /\ h_pc' = (IF h_msg' = "" THEN "irq_save" ELSE "halt") ]_vars
    /\ [][ (h_pc \in {"match", "irq_save"}) => (arch_vcpu' = arch_vcpu) ]_vars
    /\ [][ h_pc = "irq_save" => (h_pc' = "run") ]_vars

C5_Witness ==
    /\ h_pc = "run" /\ n_map = 1 /\ io.kind = "seek_err"
    /\ run_ret.kind = "NestedPageFault" /\ run_ret.addr = W32(\h2200, 0)
    /\ arch_vcpu.sepc = AddWord(KERNEL_BASE, 4)
    /\ PflashAreas(aspace) # {}

\* C6: after a NestedPageFault at 0x2200_0000 is handled, one 4096-byte
\* page is mapped there, once, with flags 0xf; it starts with the bytes
\* read from /sbin/pflash.img, and with "pfld" whenever open failed, seek
\* failed, read failed or read returned zero bytes.
C6_PageFilledOrPlaceholder ==
    [][ (AtPflashFault /\ h_msg' = "")
        => /\ n_map' = n_map + 1
           /\ Cardinality(PflashAreas(aspace')) = 1
           /\ \A area \in PflashAreas(aspace') :
                 area.size = 4096 /\ area.flags = 15
           /\ (io'.kind = "read_ok" /\ Len(io'.bytes) > 0)
              => /\ PageBytes(aspace', W32(\h2200, 0), Len(io'.bytes)) = io'.bytes
                 /\ io'.bytes = SubSeq(pflash_img.bytes, 1, Len(io'.bytes))
           /\ (io'.kind \in {"open_err", "seek_err", "read_err"}
               \/ Len(io'.bytes) = 0)
              => PageBytes(aspace', W32(\h2200, 0), 4) = <<112, 102, 108, 100>>
      ]_vars

\* C7 as claimed: a LoadGuestPageFault whose stval is not 0x40 is fatal
\* whatever htval holds: a0 is not written, sepc is not advanced and the
\* guest is not resumed.
C7_StvalAloneDecides ==
    [][ (AtExit("LoadGuestPageFault") /\ stval # W16(\h40)) => Fatal ]_vars

\* C7 as amended: a LoadGuestPageFault is emulated only when stval is 0x40
\* or the captured htval is 0x10 (0x40 >> 2); when stval is not 0x40 and
\* htval is not 0x10 the exit is fatal: a0 is not written, sepc is not
\* advanced and the guest is not resumed.
C7_StvalOrHtvalDecides ==
    /\ [][ (AtExit("LoadGuestPageFault") /\ stval # W16(\h40)
            /\ ctx.trap_csrs.htval # W16(\h10))
           => (Fatal /\ msg' = "Unhandled page fault") ]_vars
    /\ [][ (AtExit("LoadGuestPageFault") /\ ret' = "false")
           => (stval = W16(\h40) \/ ctx.trap_csrs.htval = W16(\h10)) ]_vars

C7_Witness ==
    /\ pc = "halt" /\ ret = "panic" /\ msg = "Unhandled page fault"
    /\ Cause(scause) = "LoadGuestPageFault"
    /\ stval = W16(\h1040) /\ ctx.trap_csrs.htval = W16(\h410)
    /\ reg(ctx, A0) = Zero64

\* C8: every cause other than VirtualSupervisorEnvCall, IllegalInstruction
\* and the guest page faults, and every IllegalInstruction whose word is
\* not 0xf14025f3, makes vmexit_handler panic with the context unmodified;
\* the guest is never entered again.
C8_OtherTrapsFatal ==
    /\ [][ ( pc = "vmexit_handler"
             /\ Cause(scause) \notin {"VirtualSupervisorEnvCall",
                                      "IllegalInstruction",
                                      "LoadGuestPageFault",
                                      "StoreGuestPageFault"} )
           => (Fatal /\ msg' = "Unhandled trap") ]_vars
    /\ [][ (AtExit("IllegalInstruction") /\ stval # W32(\hf140, \h25f3))
           => (Fatal /\ msg' = "Unhandled illegal instruction") ]_vars
    /\ [][ ret = "panic" => (pc' = "halt" /\ entries' = entries) ]_vars

C8_Witness ==
    /\ pc = "halt" /\ ret = "panic" /\ msg = "Unhandled trap"
    /\ Cause(scause) = "VirtualInstruction"
    /\ entries = 2 /\ handled = 2

\* C9: a VirtualSupervisorEnvCall whose registers do not decode to a
\* request is fatal, and one that decodes to a request other than Reset is
\* fatal too (unimplemented): vmexit_handler returns neither true nor
\* false and the guest is not resumed.
C9_OtherCallsFatal ==
    /\ [][ (AtExit("VirtualSupervisorEnvCall") /\ SbiMsg = "Err")
           => (Fatal /\ msg' = "bad sbi message! ") ]_vars
    /\ [][ (AtExit("VirtualSupervisorEnvCall") /\ SbiMsg \notin {"Err", "Reset"})
           => (Fatal /\ msg' = "not yet implemented") ]_vars

C9_Witness ==
    /\ pc = "halt" /\ ret = "panic" /\ msg = "not yet implemented"
    /\ Cause(scause) = "VirtualSupervisorEnvCall" /\ SbiMsg = "Base"

\* The state of the run loop.
LoopState ==
    CASE pc = "vmexit_handler"               -> "Running"
      [] pc = "run_guest" /\ ret = "false"   -> "Trapped-Recoverable"
      [] ret \in {"true", "panic"}           -> "Trapped-Terminal"
      [] OTHER                               -> "Boot"

\* The guest run that returned d was entered on the context c: the guest
\* resumed at c's sepc with c's hstatus and sstatus, and the registers it
\* does not write hold what c held.
ResumedFrom(c, d) ==
    /\ d.guest_regs.hstatus = c.guest_regs.hstatus
    /\ d.guest_regs.sstatus = c.guest_regs.sstatus
    /\ d.guest_regs.sepc \in GuestPcs(c.guest_regs.sepc)
    /\ \A i \in GprIndex \ {A0, A1, A0 + 6, A0 + 7} :
          d.guest_regs.gprs[i] = c.guest_regs.gprs[i]

\* C10: every _run_guest call is followed by exactly one vmexit_handler
\* call on the context it returned; the guest is entered again if and only
\* if the handler returned false; once the handler returned true or
\* panicked the guest is never entered again; and the only step out of
\* Trapped-Recoverable is a _run_guest call on the context the handler
\* left.
C10_RunLoop ==
    /\ [](handled <= entries /\ entries <= handled + 1)
    /\ [](pc = "vmexit_handler" <=> entries = handled + 1)
    /\ [][ pc = "vmexit_handler"
           => (handled' = handled + 1 /\ entries' = entries
               /\ vmexit_handler(ctx, scause, stval).ctx = ctx'
               /\ (pc' = "run_guest" <=> ret' = "false")
               /\ LoopState' \in {"Trapped-Recoverable", "Trapped-Terminal"}) ]_vars
    /\ [][ entries' # entries
           => (entries' = entries + 1 /\ handled' = handled
               /\ pc = "run_guest" /\ pc' = "vmexit_handler"
               /\ (entries > 0 => ret = "false")
               /\ ResumedFrom(ctx, ctx')) ]_vars
    /\ [][ LoopState = "Trapped-Recoverable"
           => (entries' = entries + 1 /\ LoopState' = "Running") ]_vars
    /\ [][ LoopState = "Trapped-Terminal"
           => (LoopState' = "Trapped-Terminal" /\ entries' = entries
               /\ handled' = handled /\ ret' = ret /\ ctx' = ctx) ]_vars

C10_Witness ==
    /\ entries = 3 /\ handled = 3 /\ ret = "true" /\ pc = "halt"
    /\ msg = "Hypervisor ok!"

(***************************************************************************)
(* h_2_0: the claims about vcpu_run and the exits of the vCPU.             *)
(***************************************************************************)
\* The control locations of h_2_0 inside the bracket of vcpu_run: after
\* local_irq_save_and_disable and before local_irq_restore has returned.
InBracket == h_pc \in {"run", "irq_restore"}

\* C11: every vCPU run is bracketed by a matched save-disable / restore
\* pair: interrupts are disabled when arch_vcpu.run() is called, the step
\* after the save is the run and the step after the run is the restore,
\* for an Ok and for an Err result alike; the restore puts back exactly the
\* flags saved for that call, so the interrupt state outside the bracket is
\* the same in every loop iteration (pairs neither nest nor go unmatched);
\* and the exit handling (mapping, writing, panicking) happens only after
\* the restore, never inside the bracket.
C11_IrqBracket ==
    /\ [](InBracket => (~irq_enabled /\ h_msg = ""))
    /\ [][ (h_pc = "irq_save")
           => (h_pc' = "run" /\ irq_flags' = irq_enabled /\ ~irq_enabled'
               /\ run_ret' = run_ret /\ arch_vcpu' = arch_vcpu) ]_vars
    /\ [][ (h_pc = "run")
           => (h_pc' = "irq_restore" /\ irq_flags' = irq_flags
               /\ ~irq_enabled' /\ run_ret'.tag \in {"Ok", "Err"}) ]_vars
    /\ [][ (h_pc = "irq_restore")
           => (h_pc' = "match" /\ irq_enabled' = irq_flags
               /\ irq_flags' = irq_flags /\ run_ret' = run_ret
               /\ arch_vcpu' = arch_vcpu) ]_vars
    /\ [][ (h_pc \in {"match", "halt"})
           => (irq_enabled' = irq_enabled /\ irq_flags' = irq_flags
               /\ irq_enabled = irq_flags
               /\ h_pc' \in {"irq_save", "halt"}) ]_vars
    /\ [][ (irq_flags' # irq_flags) => (run_ret.tag = "none") ]_vars
    /\ [][ (aspace' # aspace \/ n_map' # n_map \/ io' # io \/ h_msg' # h_msg)
           => (~InBracket /\ ~InBracket') ]_vars

C11_Witness ==
    /\ h_pc = "halt" /\ h_msg = "run VCpu get error"
    /\ run_ret.tag = "Err" /\ n_map = 1
    /\ ~irq_enabled /\ ~irq_flags

(***************************************************************************)
(* Both programs: the claims about what happens before the first guest     *)
(* entry.                                                                  *)
(***************************************************************************)
\* The control locations of simple_hv's main from the run loop on.
LoopPcs == {"run_guest", "vmexit_handler", "exit_loop"}

\* The vCPU of h_2_0 has been run at least once, or is about to be.
VcpuStarted == h_pc \in {"irq_save", "run", "irq_restore", "match"}
               \/ run_ret.tag # "none"

\* C12: the second-stage translation root is installed exactly once and
\* strictly before the first guest entry.  In simple_hv hgatp is written
\* by one step only, with no guest entry made yet; the step after it is
\* the global hfence.gvma, with no guest entry in between; every
\* _run_guest call finds the root installed and the guest TLB fenced; and
\* from the run loop on neither the write nor the fence happens again.  In
\* h_2_0 the ept root of the vCPU is set before the first run and never
\* changed after.
C12_RootInstalledOnce ==
    /\ [][ (hgatp' # hgatp \/ pc = "csrw_hgatp")
           => (pc = "csrw_hgatp" /\ pc' = "hfence_gvma_all"
               /\ hgatp' = HgatpValue(ept_root)
               /\ entries = 0 /\ entries' = 0) ]_vars
    /\ [][ (pc = "hfence_gvma_all")
           => (pc' = "run_guest" /\ gtlb_valid' /\ hgatp' = hgatp
               /\ entries = 0 /\ entries' = 0) ]_vars
    /\ [][ (entries' # entries)
           => (gtlb_valid /\ hgatp = HgatpValue(ept_root)
               /\ hgatp # Zero64) ]_vars
    /\ [][ (pc \in LoopPcs \cup {"halt"})
           => (pc' \in LoopPcs \cup {"halt"} /\ hgatp' = hgatp
               /\ gtlb_valid' = gtlb_valid /\ ept_root' = ept_root) ]_vars
    /\ [](VcpuStarted => arch_vcpu.ept_root \in EptRoots)
    /\ [][ (arch_vcpu'.ept_root # arch_vcpu.ept_root)
           => (h_pc = "vcpu_setup" /\ run_ret.tag = "none"
               /\ h_pc' = "irq_save") ]_vars

C12_Witness ==
    /\ pc = "vmexit_handler" /\ entries = 2
    /\ gtlb_valid /\ hgatp = HgatpValue(ept_root) /\ hgatp # Zero64

\* Bits 63..60 of a word, and the word with those bits cleared.
Mode(x) == x[1] \div 4096

Low60(x) == <<x[1] % 4096, x[2], x[3], x[4]>>

\* x << 12 on a 64-bit word, and x with its low 12 bits cleared.
Shl12(x) ==
    << (x[1] % 16) * 4096 + (x[2] \div 16),
       (x[2] % 16) * 4096 + (x[3] \div 16),
       (x[3] % 16) * 4096 + (x[4] \div 16),
       (x[4] % 16) * 4096 >>

FrameBase(x) == <<x[1], x[2], x[3], x[4] - (x[4] % 4096)>>

\* hgatp holds (8 << 60) | (r >> 12) for the root r.
HgatpEncodes(r) ==
    /\ Mode(hgatp) = 8
    /\ Low60(hgatp) = Shr12(r)
    /\ Shl12(Low60(hgatp)) = FrameBase(r)

\* C13: for every page-table root r, the hgatp write of
\* prepare_vm_pgtable(r) leaves hgatp holding (8 << 60) | (r >> 12): mode
\* 8 in bits 63..60 and the frame number of r below; hgatp holds that same
\* value after the global invalidation that follows, and no later step of
\* the run loop changes it.
C13_HgatpEncoding ==
    /\ [][ (pc = "csrw_hgatp") => HgatpEncodes(ept_root)' ]_vars
    /\ [][ (pc = "hfence_gvma_all")
           => (hgatp' = hgatp /\ HgatpEncodes(ept_root)') ]_vars
    /\ [](pc \in LoopPcs => HgatpEncodes(ept_root))
    /\ [][ (pc \in LoopPcs) => (hgatp' = hgatp) ]_vars

C13_Witness ==
    /\ pc = "run_guest" /\ handled = 2 /\ ret = "false"
    /\ ept_root = <<0, 1, \h2345, \h6000>>
    /\ hgatp = <<\h8000, 0, \h0012, \h3456>>

(***************************************************************************)
(* simple_hv: the claims about the guest context.                          *)
(***************************************************************************)
\* Bit k (0..15) of the low 16 bits of a word.
LowBit(x, k) == (x[4] \div (2^k)) % 2

\* hstatus.SPV is bit 7, hstatus.SPVP is bit 8, sstatus.SPP is bit 8.
GuestBitsSet(c) ==
    /\ LowBit(c.guest_regs.hstatus, 7) = 1
    /\ LowBit(c.guest_regs.hstatus, 8) = 1
    /\ LowBit(c.guest_regs.sstatus, 8) = 1

\* C14: the hstatus value in the guest context has SPV and SPVP set at
\* every guest entry: prepare_guest_context sets them once, before the
\* first _run_guest, together with sstatus.SPP = Supervisor and
\* sepc = 0x8020_0000 (changing no other bit of the two registers), and no
\* branch of vmexit_handler modifies the context's hstatus or sstatus.
C14_GuestStatusBits ==
    /\ [][ (pc = "prepare_guest_context")
           => /\ GuestBitsSet(ctx')
              /\ ctx'.guest_regs.sepc = <<0, 0, \h8020, 0>>
              /\ entries = 0 /\ entries' = 0
              /\ \A k \in (0..15) \ {7, 8} :
                    LowBit(ctx'.guest_regs.hstatus, k) = LowBit(hstatus, k)
              /\ \A k \in (0..15) \ {8} :
                    LowBit(ctx'.guest_regs.sstatus, k) = LowBit(sstatus, k)
              /\ \A i \in 1..3 :
                    /\ ctx'.guest_regs.hstatus[i] = hstatus[i]
                    /\ ctx'.guest_regs.sstatus[i] = sstatus[i] ]_vars
    /\ [][ (entries' # entries) => (GuestBitsSet(ctx) /\ GuestBitsSet(ctx')) ]_vars
    /\ [][ (pc = "vmexit_handler")
           => /\ ctx'.guest_regs.hstatus = ctx.guest_regs.hstatus
              /\ ctx'.guest_regs.sstatus = ctx.guest_regs.sstatus ]_vars
    /\ [][ (pc # "prepare_guest_context")
           => /\ ctx'.guest_regs.hstatus = ctx.guest_regs.hstatus
              /\ ctx'.guest_regs.sstatus = ctx.guest_regs.sstatus ]_vars

C14_Witness ==
    /\ pc = "vmexit_handler" /\ entries = 3 /\ ret = "false"
    /\ GuestBitsSet(ctx)
    /\ ctx.guest_regs.hstatus = <<0, 2, 0, \h0180>>

\* C15: end to end, for a guest that first executes the allow-listed CSR
\* read, then the allow-listed load at 0x40, then issues the reset
\* hypercall without changing a0 and a1 in between: the run loop sees
\* exactly three exits; the first two are resolved, each advancing sepc by
\* 4 and resuming the guest; the third finds a0 = 0x6688 and a1 = 0x1234,
\* the values the two emulations synthesized, and ends the loop normally:
\* no exit panics and the process ends with the success report.
C15_EndToEnd ==
    /\ [](entries <= 3 /\ handled <= 3 /\ ret # "panic")
    /\ [](pc = "run_guest" => (entries < 3 /\ ENABLED run_guest_program))
    /\ [][ (pc = "vmexit_handler" /\ handled < 2)
           => /\ Cause(scause) = IF handled = 0 THEN "IllegalInstruction"
                                 ELSE "LoadGuestPageFault"
              /\ ret' = "false" /\ pc' = "run_guest"
              /\ ctx'.guest_regs.sepc = AddWord(ctx.guest_regs.sepc, 4) ]_vars
    /\ [](handled >= 1 => reg(ctx, A1) = W16(\h1234))
    /\ [](handled >= 2 => reg(ctx, A0) = W16(\h6688))
    /\ [][ (pc = "vmexit_handler" /\ handled = 2)
           => /\ Cause(scause) = "VirtualSupervisorEnvCall"
              /\ SbiMsg = "Reset" /\ Handshake
              /\ ret' = "true" /\ pc' = "exit_loop" /\ ctx' = ctx ]_vars
    /\ [](ret = "true" => (handled = 3 /\ entries = 3))
    /\ []((pc = "halt" /\ entries > 0) => (ret = "true" /\ msg = "Hypervisor ok!"))

C15_Witness ==
    /\ pc = "halt" /\ msg = "Hypervisor ok!" /\ ret = "true"
    /\ entries = 3 /\ handled = 3
    /\ ctx.guest_regs.sepc = AddWord(VM_ENTRY, 16)
    /\ Handshake /\ ctx.trap_csrs.scause = Scause(FALSE, 10)

\* simple_hv has not touched the guest: no context prepared, hgatp not
\* written, no guest entry made.
GuestUntouched ==
    /\ ctx = DefaultCtx /\ hgatp = Zero64 /\ gtlb_valid
    /\ entries = 0 /\ handled = 0 /\ ret = "none"

\* h_2_0 has no vCPU: none created, none run.
NoVcpu ==
    /\ arch_vcpu = [sepc |-> Zero64, a0 |-> Zero64, ept_root |-> Zero64]
    /\ run_ret.tag = "none" /\ n_map = 0

\* C16: boot-fatal errors stop the process before any guest code runs.  In
\* simple_hv a failure of the address-space creation or of load_vm_image
\* is a panic with no guest context prepared, hgatp not written and no
\* _run_guest call made, and nothing happens after it.  In h_2_0 a failure
\* of the address-space creation, of the physical-memory mapping or of the
\* image load is a panic with no vCPU created or run, and nothing happens
\* after it.
C16_BootFatal ==
    /\ [][ (pc \in {"new_user_aspace", "load_vm_image"})
           => \/ (pc' = "halt" /\ msg' \in {"unwrap on Err", "Cannot load app!"}
                  /\ GuestUntouched')
              \/ (msg' = "" /\ pc' \in {"load_vm_image", "prepare_guest_context"}) ]_vars
    /\ [](msg \in {"unwrap on Err", "Cannot load app!"}
          => (pc = "halt" /\ GuestUntouched))
    /\ [][ (pc = "halt") => FALSE ]_vars
    /\ [][ (h_pc \in {"new_empty", "map_alloc", "load_vm_image"})
           => \/ (h_pc' = "halt" /\ NoVcpu'
                  /\ h_msg' \in {"unwrap on Err", "Failed to load VM images"})
              \/ (h_msg' = "" /\ NoVcpu'
                  /\ h_pc' \in {"map_alloc", "load_vm_image", "vcpu_setup"}) ]_vars
    /\ [](h_msg = "Failed to load VM images" => (h_pc = "halt" /\ NoVcpu))
    /\ [][ (h_pc = "halt") => FALSE ]_vars

C16_Witness ==
    /\ h_pc = "halt" /\ h_msg = "Failed to load VM images"
    /\ aspace # {} /\ NoVcpu

\* C17: the exit dispatcher routes both guest page-fault causes, the guest
\* load page fault and the guest store page fault, to the page-fault
\* emulation policy (the access is emulated, or the fault is reported as an
\* unhandled page fault); neither is routed to the fatal branch for any
\* other cause.
C17_BothPageFaultsToPolicy ==
    [][ (AtExit("LoadGuestPageFault") \/ AtExit("StoreGuestPageFault"))
        => /\ msg' # "Unhandled trap"
           /\ \/ (ret' = "false" /\ pc' = "run_guest")
              \/ (ret' = "panic" /\ msg' = "Unhandled page fault") ]_vars

\* C18: the guest context is the only channel from a guest exit to the
\* dispatcher: what vmexit_handler does (the branch it takes, its result,
\* the context it leaves) is a function of the context _run_guest returned,
\* the one computed from the trap fields captured in it, also when a host
\* interrupt has changed the live scause and stval in between; so two runs
\* with the same returned context fare the same.
C18_ContextOnlyChannel ==
    [][ (pc = "vmexit_handler" /\ handled' = handled + 1)
        => LET r == vmexit_handler(ctx, ctx.trap_csrs.scause,
                                   ctx.trap_csrs.stval)
           IN  ctx' = r.ctx /\ ret' = r.ret /\ msg' = r.msg ]_vars

\* The exit h_2_0's match is about to handle.
H2Exit(kind) == h_pc = "match" /\ run_ret.tag = "Ok" /\ run_ret.kind = kind

\* C19: in h_2_0 every exit other than Nothing or a NestedPageFault at
\* exactly 0x2200_0000 is fatal: a NestedPageFault at another address, any
\* other exit reason and an Err from the vCPU run each end the process in
\* a panic, with no page mapped and the vCPU never run again; a Nothing
\* exit changes no state and the vCPU is run again.
C19_OtherExitsFatal ==
    /\ [][ (h_pc = "match"
            /\ ~H2Exit("Nothing")
            /\ ~(H2Exit("NestedPageFault") /\ run_ret.addr = <<0, 0, \h2200, 0>>))
           => /\ h_pc' = "halt"
              /\ h_msg' = (IF run_ret.tag = "Err" THEN "run VCpu get error"
                           ELSE IF run_ret.kind = "NestedPageFault"
                           THEN "Now we ONLY handle pflash#2."
                           ELSE "Unhandled VM-Exit")
              /\ aspace' = aspace /\ n_map' = n_map
              /\ arch_vcpu' = arch_vcpu /\ run_ret' = run_ret ]_vars
    /\ [][ (h_pc = "halt") => FALSE ]_vars
    /\ [][ H2Exit("Nothing")
           => /\ h_pc' = "irq_save" /\ h_msg' = ""
              /\ UNCHANGED <<aspace, arch_vcpu, run_ret, irq_enabled,
                             irq_flags, pflash_img, io, n_map>> ]_vars
    /\ [](h_pc = "irq_save" => ENABLED h2_irq_save)

C19_Witness ==
    /\ h_pc = "halt" /\ h_msg = "Now we ONLY handle pflash#2."
    /\ run_ret.kind = "NestedPageFault"
    /\ run_ret.addr = <<0, 0, \h2200, \h1000>>
    /\ n_map = 1 /\ Cardinality(aspace) = 2

(***************************************************************************)
(* bump_allocator: the claims about EarlyAllocator.                        *)
(***************************************************************************)
\* C20: EarlyAllocator keeps the layout [bytes-used | avail-area |
\* pages-used]: after init(start, size) and any sequence of alloc, dealloc,
\* alloc_pages, dealloc_pages and add_memory calls,
\* start <= b_pos <= p_pos <= end holds (as addresses), so the byte area
\* [start, b_pos) and the page area [p_pos, end) never overlap.
C20_Layout ==
    [](ea_pc = "ready"
       => /\ ULe(early.start, early.b_pos)
          /\ ULe(early.b_pos, early.p_pos)
          /\ ULe(early.p_pos, early.end))


\* C21: b_count is the number of live byte allocations (successful allocs
\* minus deallocs); a dealloc that brings the count to zero puts b_pos back
\* at start, and a dealloc that leaves it above zero leaves b_pos alone.
C21_LiveCount ==
    /\ [](ea_pc = "ready" => early.b_count = Len(ea_live))
    /\ [][(ea_ret'.op = "dealloc") =>
            /\ early'.b_count = Len(ea_live')
            /\ (early'.b_count = 0) => (early'.b_pos = early'.start)
            /\ (early'.b_count > 0) => (early'.b_pos = early.b_pos)]_vars


\* The sum of num_pages over the page blocks in s, as a number of pages
\* without the 64-bit wrap.
RECURSIVE SumPages(_)
SumPages(s) ==
    IF s = <<>> THEN Pages(0, 0)
    ELSE LET t == SumPages(Tail(s))
         IN  Pages(Head(s).pages.hi + t.hi, Head(s).pages.lo + t.lo)

PagesLe(p, q) == p.hi < q.hi \/ (p.hi = q.hi /\ p.lo <= q.lo)

\* C22: pages are never freed: dealloc_pages changes no field, p_pos never
\* increases and used_pages never decreases, used_pages is the sum of
\* num_pages over the successful alloc_pages calls and used_pages * SIZE is
\* at most end - p_pos, and alloc and dealloc change neither p_pos nor p_used.
C22_PagesNeverFreed ==
    /\ [][(ea_ret'.op = "dealloc_pages") => (early' = early)]_vars
    /\ [][(ea_pc = "ready") =>
            /\ ULe(early'.p_pos, early.p_pos)
            /\ PagesLe(early.p_used, early'.p_used)]_vars
    /\ [](ea_pc = "ready" =>
            /\ early.p_used = SumPages(ea_pages)
            /\ early.p_used.hi = 0
            /\ early.p_used.lo * SIZE <= early.end - early.p_pos)
    /\ [][(ea_ret'.op \in {"alloc", "dealloc"}) =>
            /\ early'.p_pos = early.p_pos
            /\ early'.p_used = early.p_used]_vars


\* The blocks [a, a + n) and [b, b + m) share no byte.
Disjoint(a, n, b, m) ==
    n = 0 \/ m = 0 \/ ULe(a + n, b) \/ ULe(b + m, a)

\* The byte block [a, a + n) shares no byte with the page block p, which is
\* num_pages * SIZE bytes long.
DisjointFromPages(a, n, p) ==
    IF p.pages.hi > 0 THEN n = 0
    ELSE Disjoint(a, n, p.addr, p.pages.lo * SIZE)

\* The address a is a multiple of the power of two align.
Aligned(a, align) == BitAnd(a, align - 1) = 0

\* C23: a successful alloc(layout) returns a multiple of layout.align(), the
\* block [addr, addr + size) lies inside [start, p_pos), and it is disjoint
\* from every byte block still live and from every block alloc_pages
\* has returned.
C23_AllocBlock ==
    [](ea_pc = "ready" /\ ea_ret.op = "alloc" /\ ea_ret.ok =>
        LET addr == ea_ret.addr
            size == ea_ret.args[1]
            align == ea_ret.args[2]
            n == Len(ea_live)
        IN  /\ Aligned(addr, align)
            /\ \/ size = 0
               \/ /\ ULe(early.start, addr)
                  /\ ~AddOverflows(addr, size)
                  /\ ULe(addr + size, early.p_pos)
            /\ \A i \in 1..(n - 1) :
                 Disjoint(addr, size, ea_live[i].addr, ea_live[i].size)
            /\ \A i \in 1..Len(ea_pages) :
                 DisjointFromPages(addr, size, ea_pages[i]))


\* alloc_pages(num_pages, align_pow2) on the allocator self has to fail: the
\* start p_pos - num_pages * SIZE, aligned down, is below address zero or
\* below b_pos.
PagesDoNotFit(self, num_pages, align_pow2) ==
    \/ num_pages.hi > 0
    \/ SubUnderflows(self.p_pos, num_pages.lo * SIZE)
    \/ ULt(align_down(self.p_pos - num_pages.lo * SIZE, align_pow2),
           self.b_pos)

\* C24: a successful alloc_pages(num_pages, align_pow2) returns a multiple
\* of align_pow2 and the block [addr, addr + num_pages * SIZE) lies inside
\* [b_pos, previous p_pos]; the call fails with NoMemory exactly when the
\* aligned start would fall below b_pos or below address zero.
C24_PageBlock ==
    [][(ea_ret'.op = "alloc_pages" /\ ea_pc' = "ready") =>
        LET addr == ea_ret'.addr
            num_pages == ea_ret'.args[1]
            align_pow2 == ea_ret'.args[2]
        IN  /\ ea_ret'.ok = ~PagesDoNotFit(early, num_pages, align_pow2)
            /\ ea_ret'.ok =>
                 /\ Aligned(addr, align_pow2)
                 /\ ULe(early.b_pos, addr)
                 /\ num_pages.hi = 0
                 /\ ~AddOverflows(addr, num_pages.lo * SIZE)
                 /\ ULe(addr + num_pages.lo * SIZE, early.p_pos)]_vars


\* C25: when alloc, alloc_pages or add_memory returns an error, start, end,
\* b_pos, p_pos, b_count and p_used are what they were before the call.
C25_FailureLeavesUnchanged ==
    [][(/\ ea_pc' = "ready"
        /\ ea_ret'.op \in {"alloc", "alloc_pages", "add_memory"}
        /\ ~ea_ret'.ok) => (early' = early)]_vars


\* The bytes of the buffers s, one after the other.
RECURSIVE Flatten(_)
Flatten(s) == IF s = <<>> THEN <<>> ELSE Head(s) \o Flatten(Tail(s))

\* The bytes of the file that belong in the j-th buffer.
FileSlice(j) ==
    LET before == Len(Flatten(SubSeq(image_load_regions, 1, j - 1)))
    IN  SubSeq(image_file.bytes, before + 1,
               before + Len(image_load_regions[j]))

\* Buffers 1..n hold their bytes of the file and the buffers after the
\* m-th are as the translation returned them.
CopiedUpTo(n, m) ==
    \A j \in 1..Len(image_load_regions) :
       /\ (j <= n) => (image_load_regions[j] = FileSlice(j))
       /\ (j > m) =>
            (image_load_regions[j] = ZeroBuffer(Len(image_load_regions[j])))

LvFailed(call) == lv_io = [call |-> call, ok |-> FALSE]

\* C26: load_vm_image returns NotFound when the file cannot be opened, Io
\* when the size query fails and Io when a read cannot fill a buffer, the
\* copy stopping at that buffer; it returns Ok only after every buffer of
\* the translated range was filled, in order, with the file's bytes.
C26_TypedErrors ==
    /\ LvFailed("open") => (lv_pc = "return" /\ lv_ret = "NotFound")
    /\ LvFailed("metadata") => (lv_pc = "return" /\ lv_ret = "Io")
    /\ LvFailed("read_exact") =>
         /\ lv_pc = "return" /\ lv_ret = "Io"
         /\ lv_filled < Len(image_load_regions)
         /\ CopiedUpTo(lv_filled, lv_filled + 1)
    /\ (lv_pc = "read_exact") => CopiedUpTo(lv_filled, lv_filled)
    /\ (lv_ret # "none") => (lv_pc = "return")
    /\ (lv_ret = "Ok") =>
         /\ lv_io.ok
         /\ lv_filled = Len(image_load_regions)
         /\ CopiedUpTo(lv_filled, lv_filled)
         /\ Flatten(image_load_regions) = image_file.bytes

\* A read failed after the first buffer was filled, with a buffer left.
C26_Witness ==
    /\ LvFailed("read_exact")
    /\ lv_ret = "Io"
    /\ lv_filled = 1
    /\ Len(image_load_regions) = 2

====
